---- MODULE Spec2Model ----
(***************************************************************************)
(* A model of the session-aware protocol server of PasswordManagerFull:    *)
(* Server.py (Server, SessionServer, CommunicationProtocolServer),         *)
(* Session.py and the login handlers of PasswordManager.py.                *)
(*                                                                         *)
(* Threads: the accept loop of serve_forever, one worker per accepted      *)
(* connection (handle_client) and the session cleanup thread               *)
(* (remove_sessions).  A step of the model is one access to the shared     *)
(* session dictionary, or a run of thread-local statements between two     *)
(* such accesses.  Python strings are sequences of one-character strings.  *)
(***************************************************************************)
EXTENDS Integers, Sequences, FiniteSets, TLC

\* ------------------------------------------------------------------ bounds

\* number of connections the accept loop takes
NumClients == 2
\* the clock never passes this time (seconds)
MaxTime == 5
\* session_ttl, in seconds (10800 in PasswordManagerServer.__init__), scaled
SessionTTL == 1
\* size of the token alphabet (62 in generate_session_token), scaled
NumCharacters == 2

\* the longest token length generate_session_token is called with on its own
MaxTokenLength == 2

\* seconds the cleanup thread sleeps between two sweeps
SweepInterval == 5

\* the larger specification takes one connection more and runs one sweep
\* interval longer
MoreClients == NumClients + 1
MoreTime == MaxTime + SweepInterval

Clients == 1..MoreClients

\* ----------------------------------------------------------------- strings

\* Python's None as a header value
None == <<"<None>">>

AllCharacters == <<"a", "b", "c", "d">>
\* string.ascii_lowercase + string.ascii_uppercase + string.digits, cut down
characters == {AllCharacters[i] : i \in 1..NumCharacters}
\* the token length CommunicationProtocolServer configures (8), scaled to 1
session_token_length == 1

RECURSIVE StringsOfLength(_)
\* every string a run of `length` draws from characters can build
StringsOfLength(length) ==
    IF length = 0 THEN {<<>>}
    ELSE {Append(s, ch) : s \in StringsOfLength(length - 1), ch \in characters}

Tokens == StringsOfLength(session_token_length)

\* ------------------------------------------------------------ the requests

\* the Session header values a client sends: absent, *, -, <token>, ~<token>
SessionValues ==
    {None, <<"*">>, <<"-">>} \cup Tokens \cup {<<"~">> \o t : t \in Tokens}

\* the methods registered with handle_method, one standing for all
method_handlers == {"login_request"}
Methods == method_handlers \cup {"does_not_exist"}

\* The request object, as far as the server's own code reads it before the
\* method is looked up: its Session header.  The Method header is drawn where
\* method_handler reads it.
Requests == [Session : SessionValues]
NoRequest == [Session |-> None]

\* bytes and str objects, where the code compares the one with the other
Bytes(b) == [type |-> "bytes", value |-> b]
Str(s) == [type |-> "str", value |-> s]
\* no recv(1) has been made
NoData == [type |-> "none", value |-> <<>>]

\* ------------------------------------------------------------ the sessions

\* Session(): the object is named by the connection whose worker constructed
\* it (a worker constructs at most one) and carries its creation_date
Session(c, date) == [id |-> c, creation_date |-> date]
\* Python's None as a session reference
NoSession == [id |-> 0, creation_date |-> 0]

\* --------------------------------------------------------- the dictionary

\* self.sessions is a CPython dict: an insertion-ordered array of entries in
\* which pop leaves a dummy and a new key is appended (no resize happens
\* below six insertions).
Dummy == [key |-> <<>>, value |-> NoSession]

LiveIndexes(d) == {i \in 1..Len(d) : d[i] # Dummy}
DictKeys(d) == {d[i].key : i \in LiveIndexes(d)}
\* len(d), the ma_used the iterator compares against
DictUsed(d) == Cardinality(LiveIndexes(d))
IndexOf(d, k) == CHOOSE i \in LiveIndexes(d) : d[i].key = k
\* d.get(k)
DictGet(d, k) == IF k \in DictKeys(d) THEN d[IndexOf(d, k)].value ELSE NoSession
\* d[k] = v
DictSet(d, k, v) ==
    IF k \in DictKeys(d)
    THEN [d EXCEPT ![IndexOf(d, k)].value = v]
    ELSE Append(d, [key |-> k, value |-> v])
\* a pop that leaves the entry in place: the fault C7_ClosedTokenAbsent
\* tells from d.pop(k)
DictPopKeeps(d, k) == d
\* d.pop(k), for k in d
DictPop(d, k) == [d EXCEPT ![IndexOf(d, k)] = Dummy]

\* ---------------------------------------------------------------- the codec

(***************************************************************************)
(* CommunicationProtocol.  Here a str is the sequence of its code points   *)
(* and a bytes object the sequence of its bytes, so that encode and len    *)
(* are what they are in Python.                                            *)
(***************************************************************************)

\* most headers of a message
MaxHeaders == 2
\* most bytes of a body
MaxBody == 1

\* ord(":"), ord("=")
Colon == 58
Equals == 61

\* "req" and "res"
REQ == <<114, 101, 113>>
RES == <<114, 101, 115>>

\* header names and values: "", "a", "ab", "=", ":" and "é"
Texts == {<<>>, <<97>>, <<97, 98>>, <<Equals>>, <<Colon>>, <<233>>}

\* self.body: None, or a bytes object
NoBody == [is_none |-> TRUE, bytes |-> <<>>]
Body(b) == [is_none |-> FALSE, bytes |-> b]

RECURSIVE BytesUpTo(_)
\* the bodies of at most n bytes, each the byte ":"
BytesUpTo(n) ==
    IF n = 0 THEN {<<>>} ELSE BytesUpTo(n - 1) \cup {[k \in 1..n |-> Colon]}

RECURSIVE HeadersUpTo(_)
\* self.headers: a dict, held as the sequence of its items in insertion order
HeadersUpTo(n) ==
    IF n = 0 THEN {<<>>}
    ELSE HeadersUpTo(n - 1) \cup
         {Append(h, [name |-> k, value |-> v]) :
             h \in {g \in HeadersUpTo(n - 1) : Len(g) = n - 1},
             k \in Texts, v \in Texts}

HeaderNames(h) == {h[i].name : i \in 1..Len(h)}

\* CommunicationProtocol(req_res, headers, body)
CommunicationProtocol(req_res, headers, body) ==
    [req_res |-> req_res, headers |-> headers, body |-> body]

\* the messages to_bytes is given
Messages ==
    {CommunicationProtocol(t, h, b) :
        t \in {REQ, RES},
        h \in {g \in HeadersUpTo(MaxHeaders) : Cardinality(HeaderNames(g)) = Len(g)},
        b \in {NoBody} \cup {Body(x) : x \in BytesUpTo(MaxBody)}}

NoMessage == CommunicationProtocol(<<>>, <<>>, NoBody)

RECURSIVE encode(_)
\* str.encode(): UTF-8, one byte for a code point below 128 and two for one
\* below 2048.  A long string is encoded as its two halves.
encode(s) ==
    IF Len(s) > 8
    THEN encode(SubSeq(s, 1, Len(s) \div 2))
             \o encode(SubSeq(s, Len(s) \div 2 + 1, Len(s)))
    ELSE IF s = <<>> THEN <<>>
    ELSE (IF Head(s) < 128 THEN <<Head(s)>>
          ELSE <<192 + (Head(s) \div 64), 128 + (Head(s) % 64)>>) \o encode(Tail(s))

\* the first position from p on after which a character ends, if the bytes
\* are UTF-8: the byte after it is no continuation byte
Boundary(b, p) ==
    CHOOSE q \in p..Len(b) :
        /\ q = Len(b) \/ b[q + 1] \notin 128..191
        /\ \A r \in p..(q - 1) : b[r + 1] \in 128..191

RECURSIVE decode(_)
\* bytes.decode(): UTF-8, or UnicodeDecodeError (the lead bytes of the three-
\* and four-byte forms, 224..244, are not among the bytes of the model).  A
\* long run is decoded as its two halves, cut where a character ends.
decode(b) ==
    IF Len(b) > 8
    THEN LET q == Boundary(b, Len(b) \div 2)
             left == decode(SubSeq(b, 1, q))
             right == decode(SubSeq(b, q + 1, Len(b)))
         IN IF left.ok /\ right.ok
            THEN [ok |-> TRUE, text |-> left.text \o right.text]
            ELSE [ok |-> FALSE, text |-> <<>>]
    ELSE IF b = <<>> THEN [ok |-> TRUE, text |-> <<>>]
    ELSE IF b[1] < 128
    THEN LET r == decode(Tail(b)) IN [ok |-> r.ok, text |-> <<b[1]>> \o r.text]
    ELSE IF b[1] \in 194..223 /\ Len(b) >= 2 /\ b[2] \in 128..191
    THEN LET r == decode(SubSeq(b, 3, Len(b))) IN
         [ok |-> r.ok, text |-> <<(b[1] - 192) * 64 + (b[2] - 128)>> \o r.text]
    ELSE [ok |-> FALSE, text |-> <<>>]

\* chr(byte): the character whose code point is the byte
chr(byte) == byte

Min(a, b) == IF a <= b THEN a ELSE b

\* arr[lo:hi]
Slice(arr, lo, hi) == SubSeq(arr, Min(lo, Len(arr)) + 1, Min(hi, Len(arr)))

\* arr[lo:hi] = b, on a bytearray: the slice is replaced, whatever its length
SliceAssign(arr, lo, hi, b) ==
    LET l == Min(lo, Len(arr))
        h == IF Min(hi, Len(arr)) < l THEN l ELSE Min(hi, Len(arr))
    IN SubSeq(arr, 1, l) \o b \o SubSeq(arr, h + 1, Len(arr))


\* the four bytes in the other order, as to_bytes(4, 'big') gives them: the
\* fault C14_HeaderLength tells from ToLittleEndian
ToBigEndian(n) ==
    <<(n \div 16777216) % 256, (n \div 65536) % 256, (n \div 256) % 256, n % 256>>

\* header_length.to_bytes(4, 'little'); OverflowError from 2^32 on, which no
\* message of the model reaches
ToLittleEndian(n) ==
    <<n % 256, (n \div 256) % 256, (n \div 65536) % 256, (n \div 16777216) % 256>>

RECURSIVE FromBigEndian(_)
\* the bytes read in the other order, as int.from_bytes(b, "big") reads them:
\* the fault C13_RoundTripAscii tells from FromLittleEndian
FromBigEndian(b) ==
    IF b = <<>> THEN 0 ELSE b[Len(b)] + 256 * FromBigEndian(SubSeq(b, 1, Len(b) - 1))

RECURSIVE FromLittleEndian(_)
\* int.from_bytes(b, "little")
FromLittleEndian(b) ==
    IF b = <<>> THEN 0 ELSE Head(b) + 256 * FromLittleEndian(Tail(b))

RECURSIVE get_params_list(_)
\* get_params_list, of the headers: f"{header_name}={self.headers[header_name]}"
get_params_list(headers) ==
    IF headers = <<>> THEN <<>>
    ELSE <<Head(headers).name \o <<Equals>> \o Head(headers).value>>
         \o get_params_list(Tail(headers))

RECURSIVE params_length(_)
\* to_bytes, lines 60-62
params_length(params_list) ==
    IF params_list = <<>> THEN 0
    ELSE Len(Head(params_list)) + 1 + params_length(Tail(params_list))

RECURSIVE write_params(_, _, _)
\* to_bytes, lines 76-78: the loop that writes the params from position i on
write_params(byte_arr, params_list, i) ==
    IF params_list = <<>> THEN [byte_arr |-> byte_arr, i |-> i]
    ELSE LET param == Head(params_list) IN
         write_params(
             SliceAssign(byte_arr, i, i + Len(param) + 1, encode(param \o <<Colon>>)),
             Tail(params_list), i + Len(param) + 1)

\* to_bytes
to_bytes(self) ==
    LET params_list == get_params_list(self.headers)
        header_length == 6 + Len(self.req_res) + params_length(params_list)
        body_length == IF self.body.is_none THEN 0 ELSE Len(self.body.bytes)
        zeros == [k \in 1..(header_length + body_length) |-> 0]
        tag == SliceAssign(zeros, 0, 3, encode(self.req_res))
        colon == SliceAssign(tag, 3, 4, encode(<<Colon>>))
        field == SliceAssign(colon, 4, 8, ToLittleEndian(header_length))
        start == SliceAssign(field, 8, 9, encode(<<Colon>>))
        written == write_params(start, params_list, 9)
    IN IF self.body.is_none THEN written.byte_arr
       ELSE SliceAssign(written.byte_arr, written.i, Len(written.byte_arr),
                        self.body.bytes)

\* what a call returned or raised
Returned(message) == [raised |-> "none", message |-> message]
Raised(exception) == [raised |-> exception, message |-> NoMessage]

\* CommunicationProtocolException(byte_arr, message): __init__ calls
\* super.__init__(message), on the type super and not on super(), so the
\* construction raises TypeError and no CommunicationProtocolException exists
CommunicationProtocolException(byte_arr, message) == Raised("TypeError")

RECURSIVE split(_, _)
\* str.split(sep), for a separator of one character
split(s, sep) ==
    IF \E i \in 1..Len(s) : s[i] = sep
    THEN LET i == CHOOSE i \in 1..Len(s) :
                      s[i] = sep /\ \A j \in 1..(i - 1) : s[j] # sep
         IN <<SubSeq(s, 1, i - 1)>> \o split(SubSeq(s, i + 1, Len(s)), sep)
    ELSE <<s>>

\* param_dict[header_name] = header_value
set_header_value(headers, header_name, header_value) ==
    IF \E i \in 1..Len(headers) : headers[i].name = header_name
    THEN [i \in 1..Len(headers) |->
             IF headers[i].name = header_name
             THEN [name |-> header_name, value |-> header_value]
             ELSE headers[i]]
    ELSE Append(headers, [name |-> header_name, value |-> header_value])

RECURSIVE params_to_dict(_, _)
\* params_list_to_dict, lines 133-138: the loop, param_dict so far
params_to_dict(params_list, param_dict) ==
    IF params_list = <<>> THEN [raised |-> "none", dict |-> param_dict]
    ELSE LET split_param == split(Head(params_list), Equals) IN
         IF Len(split_param) < 2
         THEN \* split_param[1]
              [raised |-> "IndexError", dict |-> <<>>]
         ELSE params_to_dict(Tail(params_list),
                  set_header_value(param_dict, split_param[1], split_param[2]))

\* params_list_to_dict
params_list_to_dict(params_list) == params_to_dict(params_list, <<>>)

RECURSIVE read_params(_, _, _, _, _)
\* from_bytes, lines 110-116: the while loop, taken a param at a time: up to
\* the next ":" below header_length the bytes go to param, one chr each; at
\* the ":" the param is appended; a byte_arr that ends below header_length
\* makes byte_arr[i] raise
read_params(byte_arr, header_length, i, params, param) ==
    LET end == Min(header_length, Len(byte_arr))
        colons == {j \in i..(end - 1) : byte_arr[j + 1] = Colon}
        next == CHOOSE j \in colons : \A k \in colons : j <= k
    IN
    IF ~(i < header_length) THEN [raised |-> "none", params |-> params, i |-> i]
    ELSE IF colons # {}
    THEN read_params(byte_arr, header_length, next + 1,
             Append(params,
                    param \o [k \in 1..(next - i) |-> chr(byte_arr[i + k])]),
             <<>>)
    ELSE IF header_length > Len(byte_arr)
    THEN \* byte_arr[i]
         [raised |-> "IndexError", params |-> <<>>,
          i |-> IF i >= Len(byte_arr) THEN i ELSE Len(byte_arr)]
    ELSE [raised |-> "none", params |-> params, i |-> header_length]

\* from_bytes
from_bytes(byte_arr) ==
    LET req_res == decode(Slice(byte_arr, 0, 3)) IN
    IF ~req_res.ok THEN Raised("UnicodeDecodeError")
    ELSE IF req_res.text # REQ /\ req_res.text # RES
    THEN CommunicationProtocolException(byte_arr,
                                        "Message does not start with res or req")
    ELSE LET header_length == FromLittleEndian(Slice(byte_arr, 4, 8))
             read == read_params(byte_arr, header_length, 9, <<>>, <<>>)
             headers == params_list_to_dict(read.params)
         IN IF read.raised # "none" THEN Raised(read.raised)
            ELSE IF headers.raised # "none" THEN Raised(headers.raised)
            ELSE Returned(CommunicationProtocol(req_res.text, headers.dict,
                              Body(Slice(byte_arr, read.i, Len(byte_arr)))))

\* byte sequences that do not start with req or res: "xyz1", three bytes that
\* are no UTF-8, "re", "" and "REQ:"
BadFrames ==
    {<<120, 121, 122, 49>>, <<255, 254, 253>>, <<114, 101>>, <<>>,
     <<82, 69, 81, Colon>>}

\* a CommunicationProtocol call on its own: where it is, the message to_bytes
\* is called on, the bytes from_bytes is given, and what from_bytes did
Call(at, self, byte_arr, result) ==
    [at |-> at, self |-> self, byte_arr |-> byte_arr, result |-> result]

\* no CommunicationProtocol call is under way
NoCall == Call("idle", NoMessage, <<>>, Raised("none"))

\* the socket of one connection: the bytes its peer sent before it closed,
\* those of them no recv has returned yet, and the bytes send has written
Wire(sent) == [sent |-> sent, unread |-> sent, written |-> <<>>]
NoWire == Wire(<<>>)

\* receive_message's locals
Frame(req_res, header_length_bytes, headers_bytes, content_length) ==
    [req_res |-> req_res, header_length_bytes |-> header_length_bytes,
     headers |-> headers_bytes, content_length |-> content_length]
NoFrame == Frame(<<>>, <<>>, <<>>, 0)

\* what handle_client passes from one stage to the next: the bytes
\* receive_message returned, the request parse_message and session_generator
\* return, the (req, res) tuple method_handler returns
Result(type, bytes, request, response) ==
    [type |-> type, bytes |-> bytes, req |-> request, res |-> response]
NoResult == Result("none", <<>>, NoMessage, NoMessage)

\* ------------------------------------------------------------------ state

VARIABLES
    now,            \* datetime.datetime.now(), in seconds
    sessions,       \* SessionServer.sessions
    accepted,       \* connections the accept loop has handed to a worker
    pc,             \* where each connection's worker is
    req,            \* the request object the handlers pass on
    token,          \* the token create_session made for this request
    session,        \* method_handler's session
    res,            \* the Session header of method_handler's res
    raised,         \* the exception that ended the worker, if any
    data,           \* receive_message's data: what the last recv(1) returned
    listening,      \* whether the accept loop of serve_forever is running
    issued,         \* by token: the session whose token a client was told
    follows,        \* the session a follow-up request was sent for
    epc,            \* where the cleanup thread is
    remove_tokens,  \* remove_sessions' remove_tokens
    di_used,        \* the dict iterator: the dict's size when it was made
    di_pos,         \* the dict iterator: the next entry to look at
    di_len,         \* the dict iterator: the entries it may still yield
    wake,           \* when time.sleep(5) returns
    codec,          \* a CommunicationProtocol call on its own: to_bytes, from_bytes
    wire,           \* one connection's socket: what the peer sent, what is unread
    hpc,            \* where that connection's handle_client is
    frame,          \* receive_message's locals
    prev_result,    \* handle_client's prev_result
    ran,            \* the handlers handle_client has called, with what they got
    uncaught,       \* the exception that left handle_client, if any
    gen,            \* a generate_session_token call on its own: its locals
    vault           \* one session's data, the database, the last handler call

worker_vars == <<pc, req, token, session, res, raised, data>>
client_vars == <<issued, follows>>
accept_vars == <<accepted, listening>>
conn_vars == <<accept_vars, worker_vars, client_vars>>
evict_vars == <<epc, remove_tokens, di_used, di_pos, di_len, wake>>
hc_vars == <<wire, hpc, frame, prev_result, ran, uncaught>>
unit_vars == <<codec, hc_vars, gen, vault>>
vars == <<now, sessions, conn_vars, evict_vars, unit_vars>>

\* the server after SessionServer.__init__ and the start of serve_forever
ServerInit ==
    /\ now = 0
    /\ sessions = <<>>
    /\ accepted = 0
    /\ pc = [c \in Clients |-> "unborn"]
    /\ req = [c \in Clients |-> NoRequest]
    /\ token = [c \in Clients |-> <<>>]
    /\ session = [c \in Clients |-> NoSession]
    /\ res = [c \in Clients |-> None]
    /\ raised = [c \in Clients |-> "none"]
    /\ issued = [t \in Tokens |-> NoSession]
    /\ follows = [c \in Clients |-> NoSession]
    /\ epc = "sleep"
    /\ remove_tokens = <<>>
    /\ di_used = 0
    /\ di_pos = 1
    /\ di_len = 0
    /\ wake = 0
    /\ data = [c \in Clients |-> NoData]
    /\ listening = TRUE

\* no connection is looked at byte by byte
NoConnection ==
    /\ wire = NoWire
    /\ hpc = "idle"
    /\ frame = NoFrame
    /\ prev_result = NoResult
    /\ ran = <<>>
    /\ uncaught = "none"

\* a generate_session_token call: the length it was given, its token, and
\* where it is
Generating(length, token_built, at) ==
    [length |-> length, token |-> token_built, at |-> at]
NoGenerating == Generating(0, <<>>, "idle")

\* the keys of a session's data with their values, the Users and Passwords
\* tables, the handler call made last, and the two calls under way in other
\* threads: a login_test that has compared its number (0: none), a
\* login_request that has stored its number ("": none)
Vault(data_keys, loginNumber, loginUserName, loggedInUID, Users, Passwords, last, testing, requesting) ==
    [data |-> data_keys, loginNumber |-> loginNumber,
     loginUserName |-> loginUserName, loggedInUID |-> loggedInUID,
     Users |-> Users, Passwords |-> Passwords, last |-> last,
     testing |-> testing, requesting |-> requesting]
\* a handler call: the method, whether it got a Session, the request's body,
\* the statements the cursor executed, the exception that left it
HandlerCall(method, with_session, body, statements, exception) ==
    [method |-> method, with_session |-> with_session, body |-> body,
     statements |-> statements, raised |-> exception]
NoBodyFields == [name |-> "", number |-> 0, source |-> ""]
NoHandlerCall == HandlerCall("", FALSE, NoBodyFields, <<>>, "none")
NoVault == Vault({}, 0, "", 0, {}, {}, NoHandlerCall, 0, "")

Init ==
    ServerInit /\ codec = NoCall /\ NoConnection /\ gen = NoGenerating
        /\ vault = NoVault

\* ------------------------------------------------- the connection workers

\* method_handler's session_token: the Session header with a leading "~" cut
StripTilde(session_value) ==
    IF Head(session_value) = "~" THEN Tail(session_value) ELSE session_value

\* a method_handler that closes the session after every request: the fault
\* C28_CloseAfterResponse tells from closes_session
closes_session_always(session_value) == TRUE

\* whether method_handler goes on to close_session: line 429
closes_session(session_value) == Head(session_value) = "~"

\* Session.seconds_alive
seconds_alive(s) == now - s.creation_date

\* the workers that are running
Running == {c \in Clients : pc[c] \notin {"unborn", "closed", "crashed"}}

\* The worker thread of connection c ends, after close_client or with an
\* uncaught exception; its frame goes with it.
EndWorker(c, state, exception) ==
    /\ pc' = [pc EXCEPT ![c] = state]
    /\ raised' = [raised EXCEPT ![c] = exception]
    /\ req' = [req EXCEPT ![c] = NoRequest]
    /\ token' = [token EXCEPT ![c] = <<>>]
    /\ session' = [session EXCEPT ![c] = NoSession]
    /\ res' = [res EXCEPT ![c] = None]
    /\ follows' = [follows EXCEPT ![c] = NoSession]
    /\ data' = [data EXCEPT ![c] = NoData]

\* an exception nothing catches ends the worker before close_client
Raise(c, exception) == EndWorker(c, "crashed", exception)

\* handle_client, line 123: method_handler has returned, close_client closes
\* the socket and the worker ends
close_client(c) == EndWorker(c, "closed", "none")

\* a serve_forever that handles the connection in the accept loop's own
\* thread, and accepts again when handle_client has returned: the fault
\* C29_StalledWorkerHoldsNoOne tells from serve_forever
serve_forever_inline(limit) ==
    /\ listening
    /\ Running = {}
    /\ accepted < limit
    /\ accepted' = accepted + 1
    /\ pc' = [pc EXCEPT ![accepted + 1] = "receive_message"]
    /\ UNCHANGED <<now, sessions, evict_vars, client_vars, req, token, session,
                   res, raised, data, listening, unit_vars>>

\* serve_forever: accept a connection and start its worker thread
serve_forever(limit) ==
    /\ listening
    /\ accepted < limit
    /\ accepted' = accepted + 1
    /\ pc' = [pc EXCEPT ![accepted + 1] = "receive_message"]
    /\ UNCHANGED <<now, sessions, evict_vars, client_vars, req, token, session,
                   res, raised, data, listening, unit_vars>>

\* The session a client that sends <token> is following up on: the one a
\* response told it of, unless that session has expired or a ~<token> request
\* is under way.
FollowedUp(session_value) ==
    IF /\ session_value \in Tokens
       /\ issued[session_value] # NoSession
       /\ seconds_alive(issued[session_value]) <= SessionTTL
       /\ \A d \in Running : req[d].Session # <<"~">> \o session_value
    THEN issued[session_value]
    ELSE NoSession

\* generate_session_token: the draw that leaves the while loop is one that is
\* neither a key of sessions nor empty
generate_session_token(t, length) ==
    /\ t \in StringsOfLength(length)
    /\ ~(t \in DictKeys(sessions) \/ t = <<>>)

\* a session_generator that creates a session for "-" as it does for "*": the
\* fault C8_DashNoSession tells from session_generator
session_generator_for_dash(c, session_value) ==
    IF session_value \in {<<"*">>, <<"-">>}
    THEN \E t \in Tokens :
            /\ t \notin DictKeys(sessions)
            /\ token' = [token EXCEPT ![c] = t]
            /\ pc' = [pc EXCEPT ![c] = "create_session"]
    ELSE /\ pc' = [pc EXCEPT ![c] = "method_handler"]
         /\ UNCHANGED token

\* session_generator, up to the return of generate_session_token
session_generator(c, session_value) ==
    IF session_value = <<"*">>
    THEN \E t \in Tokens :
            /\ generate_session_token(t, session_token_length)
            /\ token' = [token EXCEPT ![c] = t]
            /\ pc' = [pc EXCEPT ![c] = "create_session"]
    ELSE /\ pc' = [pc EXCEPT ![c] = "method_handler"]
         /\ UNCHANGED token

\* handle_client: receive_message reads the frame the client has sent, the
\* first handler, parse_message, makes the request object of it, and the
\* second, session_generator, starts
receive_message(c) ==
    /\ pc[c] = "receive_message"
    /\ \E m \in Requests :
        /\ req' = [req EXCEPT ![c] = m]
        /\ follows' = [follows EXCEPT ![c] = FollowedUp(m.Session)]
        /\ issued' = [t \in Tokens |->
                        IF m.Session = <<"~">> \o t THEN NoSession ELSE issued[t]]
        /\ session_generator(c, m.Session)
    /\ UNCHANGED <<now, sessions, evict_vars, accept_vars, session, res, raised,
                   data, unit_vars>>

\* a create_session that stores the new session under the request's Session
\* header value instead of the generated token: the fault C22_KeysAreTokens
\* tells from create_session
create_session_under_header(c) ==
    /\ pc[c] = "create_session"
    /\ sessions' = DictSet(sessions, req[c].Session, Session(c, now))
    /\ req' = [req EXCEPT ![c].Session = token[c]]
    /\ pc' = [pc EXCEPT ![c] = "method_handler"]
    /\ UNCHANGED <<now, evict_vars, accept_vars, client_vars, token, session,
                   res, raised, data, unit_vars>>

\* create_session, from self.sessions[token] = Session() on, and the rest of
\* session_generator
create_session(c) ==
    /\ pc[c] = "create_session"
    /\ sessions' = DictSet(sessions, token[c], Session(c, now))
    /\ req' = [req EXCEPT ![c].Session = token[c]]
    /\ pc' = [pc EXCEPT ![c] = "method_handler"]
    /\ UNCHANGED <<now, evict_vars, accept_vars, client_vars, token, session,
                   res, raised, data, unit_vars>>

\* get_session
get_session(t) == DictGet(sessions, t)

\* a method_handler that looks the session up with self.sessions[token],
\* which raises KeyError for an absent token: the fault C17_GetSessionTotal
\* tells from method_handler
method_handler_subscript(c) ==
    /\ pc[c] = "method_handler"
    /\ IF req[c].Session = None
       THEN Raise(c, "TypeError: session_token[0]")
       ELSE LET session_token == StripTilde(req[c].Session) IN
            IF session_token # <<"-">> /\ session_token \notin DictKeys(sessions)
            THEN Raise(c, "KeyError: sessions[token]")
            ELSE /\ session' = [session EXCEPT ![c] =
                        IF session_token # <<"-">> THEN DictGet(sessions, session_token)
                        ELSE NoSession]
                 /\ res' = [res EXCEPT ![c] = session_token]
                 /\ pc' = [pc EXCEPT ![c] = "dispatch"]
                 /\ UNCHANGED <<req, token, raised, follows, data>>
    /\ UNCHANGED <<now, sessions, evict_vars, accept_vars, issued, unit_vars>>

\* method_handler, lines 408-419: resolve the session of the request
method_handler(c) ==
    /\ pc[c] = "method_handler"
    /\ IF req[c].Session = None
       THEN \* None[0]
            Raise(c, "TypeError: session_token[0]")
       ELSE LET session_token == StripTilde(req[c].Session) IN
            /\ session' = [session EXCEPT ![c] =
                   IF session_token # <<"-">> THEN get_session(session_token)
                   ELSE NoSession]
            /\ res' = [res EXCEPT ![c] = session_token]
            /\ pc' = [pc EXCEPT ![c] = "dispatch"]
            /\ UNCHANGED <<req, token, raised, follows, data>>
    /\ UNCHANGED <<now, sessions, evict_vars, accept_vars, issued, unit_vars>>

\* method_handler, lines 421-429: look the method up, call its handler with
\* (req, res, session), send the response it filled in
dispatch(c) ==
    /\ pc[c] = "dispatch"
    /\ \E method \in Methods :
       IF method \notin method_handlers
       THEN \* self.method_handlers[method]
            /\ Raise(c, "KeyError: method_handlers[method]")
            /\ UNCHANGED issued
       ELSE /\ issued' = [t \in Tokens |->
                             IF t = token[c] THEN session[c] ELSE issued[t]]
            /\ IF closes_session(req[c].Session)
               THEN /\ pc' = [pc EXCEPT ![c] = "close_session"]
                    /\ UNCHANGED <<req, token, session, res, raised, follows,
                                   data>>
               ELSE close_client(c)
    /\ UNCHANGED <<now, sessions, evict_vars, accept_vars, unit_vars>>

\* close_session, called from method_handler line 430
close_session(c) ==
    /\ pc[c] = "close_session"
    /\ IF res[c] \in DictKeys(sessions)
       THEN /\ sessions' = DictPop(sessions, res[c])
            /\ close_client(c)
       ELSE \* dict.pop of an absent key, no default
            /\ Raise(c, "KeyError: sessions.pop(token)")
            /\ UNCHANGED sessions
    /\ issued' = [t \in Tokens |-> IF t = res[c] THEN NoSession ELSE issued[t]]
    /\ UNCHANGED <<now, evict_vars, accept_vars, unit_vars>>

\* whether the response of connection c has been written to its socket
sent(c) ==
    \/ pc[c] \in {"close_session", "closed"}
    \/ raised[c] = "KeyError: sessions.pop(token)"

\* --------------------------------------------- the socket, when it goes wrong

\* first three bytes a peer may send that are not a direction tag
BadPreambles == {Bytes(<<"x", "y", "z">>), Bytes(<<"r", "e">>), Bytes(<<>>)}

\* "req".encode() and "res".encode()
DirectionTags == {Bytes(<<"r", "e", "q">>), Bytes(<<"r", "e", "s">>)}

\* what recv(1) can return after `last`: one more byte while the peer has not
\* closed, b"" once it has (and from then on)
recv(last) ==
    IF last = Bytes(<<>>) THEN {Bytes(<<>>)} ELSE {Bytes(<<"x">>), Bytes(<<>>)}

\* receive_message, line 340: the test of the drain loop, data != ""
drain_continues(d) == d # Str(<<>>)

\* receive_message, lines 336-339: the first three bytes are neither req nor
\* res, and the first recv(1) of the drain loop is made
malformed_preamble(c) ==
    /\ pc[c] = "receive_message"
    /\ \E req_res \in BadPreambles :
        /\ req_res \notin DirectionTags
        /\ \E d \in recv(NoData) : data' = [data EXCEPT ![c] = d]
    /\ pc' = [pc EXCEPT ![c] = "drain"]
    /\ UNCHANGED <<now, sessions, evict_vars, accept_vars, client_vars, req,
                   token, session, res, raised, unit_vars>>

\* receive_message, lines 340-343: one turn of the drain loop
drain(c) ==
    /\ pc[c] = "drain"
    /\ IF drain_continues(data[c])
       THEN \* req_res += data; data = client_socket.recv(1)
            /\ \E d \in recv(data[c]) : data' = [data EXCEPT ![c] = d]
            /\ UNCHANGED <<pc, req, token, session, res, raised, follows>>
       ELSE \* raise CommunicationProtocolException(...), whose __init__ calls
            \* super.__init__(message)
            Raise(c, "TypeError: super.__init__")
    /\ UNCHANGED <<now, sessions, evict_vars, accept_vars, issued, unit_vars>>

\* a socket read fails: recv raises OSError in receive_message
recv_raises(c) ==
    /\ pc[c] \in {"receive_message", "drain"}
    /\ Raise(c, "OSError: recv")
    /\ UNCHANGED <<now, sessions, evict_vars, accept_vars, issued, unit_vars>>

\* a socket write fails: client_socket.send raises OSError in method_handler,
\* line 426, after the handler of a registered method has returned
send_raises(c) ==
    /\ pc[c] = "dispatch"
    /\ \E method \in method_handlers : Raise(c, "OSError: send")
    /\ UNCHANGED <<now, sessions, evict_vars, accept_vars, issued, unit_vars>>

\* accept fails: server_socket.accept raises OSError (with TLS, also for a
\* handshake that fails) inside the while loop of serve_forever, which has no
\* try: the loop ends
accept_raises ==
    /\ listening
    /\ listening' = FALSE
    /\ UNCHANGED <<now, sessions, evict_vars, accepted, worker_vars, client_vars,
                   unit_vars>>

\* ------------------------------------------------------ the cleanup thread

\* the first live entry at or after position i, or 0: the iterator's skip
\* over the dummies
NextEntry(d, i) ==
    IF \E j \in LiveIndexes(d) : j >= i
    THEN CHOOSE j \in LiveIndexes(d) :
            j >= i /\ \A k \in LiveIndexes(d) : k >= i => j <= k
    ELSE 0

\* remove_sessions after the scan or a pop: time.sleep(5) once no collected
\* token is left
AfterRemoval(tokens) ==
    IF tokens = <<>>
    THEN epc' = "sleep" /\ wake' = now + SweepInterval
    ELSE epc' = "remove" /\ UNCHANGED wake

\* remove_sessions, lines 256-261: a pass starts and makes its iterator
start_scan ==
    /\ epc = "sleep"
    /\ now >= wake
    /\ epc' = "scan"
    /\ remove_tokens' = <<>>
    /\ di_used' = DictUsed(sessions)
    /\ di_len' = DictUsed(sessions)
    /\ di_pos' = 1
    /\ UNCHANGED <<now, sessions, conn_vars, wake, unit_vars>>

\* remove_sessions, lines 261-265: one turn of the for loop over
\* self.sessions.items()
scan(ttl) ==
    /\ epc = "scan"
    /\ LET j == NextEntry(sessions, di_pos) IN
       IF di_used # DictUsed(sessions)
       THEN \* RuntimeError: dictionary changed size during iteration; return
            /\ epc' = "returned"
            /\ UNCHANGED <<remove_tokens, di_pos, di_len, wake>>
       ELSE IF j = 0
       THEN \* the iterator is exhausted
            /\ AfterRemoval(remove_tokens)
            /\ UNCHANGED <<remove_tokens, di_pos, di_len>>
       ELSE IF di_len = 0
       THEN \* RuntimeError: dictionary keys changed during iteration; return
            /\ epc' = "returned"
            /\ UNCHANGED <<remove_tokens, di_pos, di_len, wake>>
       ELSE /\ di_pos' = j + 1
            /\ di_len' = di_len - 1
            /\ remove_tokens' =
                  IF seconds_alive(sessions[j].value) > ttl
                  THEN Append(remove_tokens, sessions[j].key)
                  ELSE remove_tokens
            /\ UNCHANGED <<epc, wake>>
    /\ UNCHANGED <<now, sessions, conn_vars, di_used, unit_vars>>

\* remove_sessions, lines 268-272: pop one collected token
remove ==
    /\ epc = "remove"
    /\ LET t == Head(remove_tokens) IN
       IF t \in DictKeys(sessions)
       THEN /\ sessions' = DictPop(sessions, t)
            /\ remove_tokens' = Tail(remove_tokens)
            /\ AfterRemoval(Tail(remove_tokens))
       ELSE \* KeyError, uncaught: the thread ends
            /\ epc' = "died"
            /\ UNCHANGED <<sessions, remove_tokens, wake>>
    /\ UNCHANGED <<now, conn_vars, di_used, di_pos, di_len, unit_vars>>

remove_sessions == start_scan \/ scan(SessionTTL) \/ remove

\* ---------------------------------------------------------------- the clock

\* Time passes, seen at the grain of the sweep interval.  A sweep takes no
\* time: the clock waits for a cleanup thread that is due or at work.
Tick(horizon) ==
    /\ now + SweepInterval <= horizon
    /\ \/ epc \in {"returned", "died"}
       \/ epc = "sleep" /\ now < wake
    /\ now' = now + SweepInterval
    /\ UNCHANGED <<sessions, conn_vars, evict_vars, unit_vars>>

handle_client(c) ==
    \/ receive_message(c)
    \/ create_session(c)
    \/ method_handler(c)
    \/ dispatch(c)
    \/ close_session(c)

Next ==
    \/ serve_forever(NumClients)
    \/ \E c \in Clients : handle_client(c)
    \/ remove_sessions
    \/ Tick(MaxTime)

Spec == Init /\ [][Next]_vars

\* the connection whose peer sends nothing: its worker stays in the recv of
\* receive_message
Stalled == 1

\* The threads are scheduled: the accept loop takes a connection that is
\* waiting, and the worker of a connection whose peer has sent its request
\* takes its next step.  Nothing is asked of the stalled worker's peer, of the
\* cleanup thread or of the clock.
SpecStall ==
    /\ Init
    /\ [][Next]_vars
    /\ WF_vars(serve_forever(NumClients))
    /\ \A d \in Clients \ {Stalled} : WF_vars(handle_client(d))

\* one connection more, one sweep interval longer
NextLarge ==
    \/ serve_forever(MoreClients)
    \/ \E c \in Clients : handle_client(c)
    \/ remove_sessions
    \/ Tick(MoreTime)

SpecLarge == Init /\ [][NextLarge]_vars

\* peers that send anything and sockets that fail
NextWire ==
    \/ serve_forever(NumClients)
    \/ accept_raises
    \/ \E c \in Clients :
          \/ handle_client(c)
          \/ malformed_preamble(c)
          \/ drain(c)
          \/ recv_raises(c)
          \/ send_raises(c)
    \/ remove_sessions
    \/ Tick(MaxTime)

SpecWire == Init /\ [][NextWire]_vars

\* ------------------------------------------------------- the codec on its own

\* a message is about to be encoded, or bytes about to be decoded
InitCodec ==
    /\ ServerInit
    /\ codec \in {Call("to_bytes", m, <<>>, Raised("none")) : m \in Messages}
             \cup {Call("from_bytes", NoMessage, f, Raised("none")) : f \in BadFrames}
    /\ NoConnection
    /\ gen = NoGenerating
    /\ vault = NoVault

\* byte_arr = self.to_bytes()
to_bytes_call ==
    /\ codec.at = "to_bytes"
    /\ codec' = [codec EXCEPT !.at = "from_bytes", !.byte_arr = to_bytes(codec.self)]
    /\ UNCHANGED <<now, sessions, conn_vars, evict_vars, hc_vars, gen, vault>>

\* CommunicationProtocol.from_bytes(byte_arr)
from_bytes_call ==
    /\ codec.at = "from_bytes"
    /\ codec' = [codec EXCEPT !.at = "done", !.result = from_bytes(codec.byte_arr)]
    /\ UNCHANGED <<now, sessions, conn_vars, evict_vars, hc_vars, gen, vault>>

NextCodec == to_bytes_call \/ from_bytes_call

SpecCodec == InitCodec /\ [][NextCodec]_vars

\* ------------------------------------------ one connection, byte by byte

\* the code points of the string literals of the source
Text(s) ==
    CASE s = "Content-Length" ->
            <<67, 111, 110, 116, 101, 110, 116, 45, 76, 101, 110, 103, 116, 104>>
      [] s = "Content-Type" -> <<67, 111, 110, 116, 101, 110, 116, 45, 84, 121, 112, 101>>
      [] s = "Session" -> <<83, 101, 115, 115, 105, 111, 110>>
      [] s = "Method" -> <<77, 101, 116, 104, 111, 100>>
      [] s = "create_user" -> <<99, 114, 101, 97, 116, 101, 95, 117, 115, 101, 114>>
      [] s = "login_request" ->
            <<108, 111, 103, 105, 110, 95, 114, 101, 113, 117, 101, 115, 116>>
      [] s = "login_test" -> <<108, 111, 103, 105, 110, 95, 116, 101, 115, 116>>
      [] s = "get_sources" -> <<103, 101, 116, 95, 115, 111, 117, 114, 99, 101, 115>>
      [] s = "get_password" -> <<103, 101, 116, 95, 112, 97, 115, 115, 119, 111, 114, 100>>
      [] s = "set_password" -> <<115, 101, 116, 95, 112, 97, 115, 115, 119, 111, 114, 100>>
      [] s = "delete_password" ->
            <<100, 101, 108, 101, 116, 101, 95, 112, 97, 115, 115, 119, 111, 114, 100>>
      [] s = "delete_user" -> <<100, 101, 108, 101, 116, 101, 95, 117, 115, 101, 114>>
      [] s = "does_not_exist" ->
            <<100, 111, 101, 115, 95, 110, 111, 116, 95, 101, 120, 105, 115, 116>>
      [] s = "ascii" -> <<97, 115, 99, 105, 105>>
      [] s = "bytes" -> <<98, 121, 116, 101, 115>>
      [] s = "ascii json" -> <<97, 115, 99, 105, 105, 32, 106, 115, 111, 110>>
      [] s = "*" -> <<42>>
      [] s = "-" -> <<45>>
      [] s = "~" -> <<126>>
      [] s = "a" -> <<97>>
      [] s = "b" -> <<98>>
      [] s = "c" -> <<99>>
      [] s = "d" -> <<100>>

\* the code points of "0".."9"
Digits == 48..57

RECURSIVE int(_)
\* int(text), for a text of decimal digits
int(text) ==
    IF text = <<>> THEN 0
    ELSE 10 * int(SubSeq(text, 1, Len(text) - 1)) + (text[Len(text)] - 48)

RECURSIVE str(_)
\* str(n), for n >= 0: what an f-string makes of an int
str(n) == IF n < 10 THEN <<48 + n>> ELSE str(n \div 10) \o <<48 + (n % 10)>>

\* client_socket.recv(n): how many bytes one call can return.  The peer has
\* sent wire.sent and closed: a call returns between one byte and n of the
\* unread ones, as they have arrived, and b"" once all are read
recv_sizes(n) ==
    IF n = 0 \/ wire.unread = <<>> THEN {0} ELSE 1..Min(n, Len(wire.unread))

\* the socket after a recv that returned k bytes
Unread(k) == [wire EXCEPT !.unread = SubSeq(@, k + 1, Len(@))]

\* re.compile(r"Content-Length=[0-9]+").match(param)
regular_expression_match(param) ==
    LET prefix == Text("Content-Length") \o <<Equals>> IN
    /\ Len(param) > Len(prefix)
    /\ SubSeq(param, 1, Len(prefix)) = prefix
    /\ param[Len(prefix) + 1] \in Digits

\* list(filter(regular_expression.match, headers_list))
filter_content_length(headers_list) ==
    SelectSeq(headers_list, regular_expression_match)

\* an exception leaves receive_message, and handle_client with it: its
\* thread ends, close_client is not called
Uncaught(exception) ==
    /\ hpc' = "crashed"
    /\ uncaught' = exception

\* receive_message, lines 336-339: the direction tag
recv_req_res ==
    /\ hpc = "receive_message"
    /\ \E k \in recv_sizes(3) :
        LET req_res == SubSeq(wire.unread, 1, k) IN
        /\ wire' = Unread(k)
        /\ frame' = [frame EXCEPT !.req_res = req_res]
        /\ hpc' = IF req_res # encode(REQ) /\ req_res # encode(RES)
                  THEN "drain" ELSE "header_length"
    /\ UNCHANGED <<now, sessions, conn_vars, evict_vars, codec, gen, vault, prev_result,
                   ran,                   uncaught>>

\* receive_message, lines 339-343: data = client_socket.recv(1), and the
\* test and body of the drain loop
recv_data ==
    /\ hpc = "drain"
    /\ \E k \in recv_sizes(1) :
        LET data_read == SubSeq(wire.unread, 1, k) IN
        /\ wire' = Unread(k)
        /\ IF drain_continues(Bytes(data_read))
           THEN /\ frame' = [frame EXCEPT !.req_res = @ \o data_read]
                /\ UNCHANGED <<hpc, uncaught>>
           ELSE /\ Uncaught("TypeError: super.__init__")
                /\ UNCHANGED frame
    /\ UNCHANGED <<now, sessions, conn_vars, evict_vars, codec, gen, vault, prev_result, ran>>

\* receive_message, line 346: header_length_bytes = client_socket.recv(6)[1:5]
recv_header_length ==
    /\ hpc = "header_length"
    /\ \E k \in recv_sizes(6) :
        /\ wire' = Unread(k)
        /\ frame' = [frame EXCEPT
                        !.header_length_bytes = Slice(SubSeq(wire.unread, 1, k), 1, 5)]
    /\ hpc' = "headers"
    /\ UNCHANGED <<now, sessions, conn_vars, evict_vars, codec, gen, vault, prev_result,
                   ran,                   uncaught>>

\* receive_message, lines 347-357: the header section, and the Content-Length
\* found in it
recv_headers ==
    /\ hpc = "headers"
    /\ LET header_length == FromLittleEndian(frame.header_length_bytes) IN
       IF header_length - 9 < 0
       THEN \* recv of a negative size
            /\ Uncaught("ValueError: recv")
            /\ UNCHANGED <<wire, frame>>
       ELSE \E k \in recv_sizes(header_length - 9) :
            LET headers_bytes == SubSeq(wire.unread, 1, k)
                decoded == decode(headers_bytes)
                split_list == split(decoded.text, Colon)
                headers_list == SubSeq(split_list, 1, Len(split_list) - 1)
                found == filter_content_length(headers_list)
                content_length == split(found[1], Equals)[2]
            IN
            /\ wire' = Unread(k)
            /\ IF ~decoded.ok
               THEN Uncaught("UnicodeDecodeError") /\ UNCHANGED frame
               ELSE IF found = <<>>
               THEN \* list(...)[0]
                    Uncaught("IndexError") /\ UNCHANGED frame
               ELSE IF \E i \in 1..Len(content_length) : content_length[i] \notin Digits
               THEN \* int(content_length)
                    Uncaught("ValueError: int") /\ UNCHANGED frame
               ELSE /\ frame' = [frame EXCEPT !.headers = headers_bytes,
                                              !.content_length = int(content_length)]
                    /\ hpc' = "body"
                    /\ UNCHANGED uncaught
    /\ UNCHANGED <<now, sessions, conn_vars, evict_vars, codec, gen, vault, prev_result, ran>>

\* the bytes receive_message puts together at line 363
reassembled(body) ==
    frame.req_res \o encode(<<Colon>>) \o frame.header_length_bytes
        \o encode(<<Colon>>) \o frame.headers \o body

\* receive_message, lines 360-363, and handle_client, lines 117-119: the body
\* is read and the message returned becomes prev_result
recv_body ==
    /\ hpc = "body"
    /\ \E k \in recv_sizes(frame.content_length) :
        /\ wire' = Unread(k)
        /\ prev_result' =
              Result("bytes", reassembled(SubSeq(wire.unread, 1, k)), NoMessage,
                     NoMessage)
    /\ hpc' = "handlers"
    /\ UNCHANGED <<now, sessions, conn_vars, evict_vars, codec, gen, vault, frame, ran,
                   uncaught>>

\* --------------------------------------------- the vault's method handlers

\* the bytes of the bodies the handlers write: "...".encode("ascii")
Reply(s) ==
    CASE s = "Success" ->
            <<83, 117, 99, 99, 101, 115, 115>>
      [] s = "Failed - no session" ->
            <<70, 97, 105, 108, 101, 100, 32, 45, 32, 110, 111, 32, 115, 101,
              115, 115, 105, 111, 110>>
      [] s = "Failed - not logged in" ->
            <<70, 97, 105, 108, 101, 100, 32, 45, 32, 110, 111, 116, 32, 108,
              111, 103, 103, 101, 100, 32, 105, 110>>
      [] s = "Failed - no login number in session" ->
            <<70, 97, 105, 108, 101, 100, 32, 45, 32, 110, 111, 32, 108, 111,
              103, 105, 110, 32, 110, 117, 109, 98, 101, 114, 32, 105, 110,
              32, 115, 101, 115, 115, 105, 111, 110>>
      [] s = "Failed - no login username in session" ->
            <<70, 97, 105, 108, 101, 100, 32, 45, 32, 110, 111, 32, 108, 111,
              103, 105, 110, 32, 117, 115, 101, 114, 110, 97, 109, 101, 32,
              105, 110, 32, 115, 101, 115, 115, 105, 111, 110>>
      [] s = "Failed - incorrect number" ->
            <<70, 97, 105, 108, 101, 100, 32, 45, 32, 105, 110, 99, 111, 114,
              114, 101, 99, 116, 32, 110, 117, 109, 98, 101, 114>>
      [] s = "Failed - user a doesn't exist" ->
            <<70, 97, 105, 108, 101, 100, 32, 45, 32, 117, 115, 101, 114, 32,
              97, 32, 100, 111, 101, 115, 110, 39, 116, 32, 101, 120, 105,
              115, 116>>
      [] s = "Failed - server database error" ->
            <<70, 97, 105, 108, 101, 100, 32, 45, 32, 115, 101, 114, 118,
              101, 114, 32, 100, 97, 116, 97, 98, 97, 115, 101, 32, 101, 114,
              114, 111, 114>>
      [] s = "User with this username already exists, choose a different username" ->
            <<85, 115, 101, 114, 32, 119, 105, 116, 104, 32, 116, 104, 105,
              115, 32, 117, 115, 101, 114, 110, 97, 109, 101, 32, 97, 108,
              114, 101, 97, 100, 121, 32, 101, 120, 105, 115, 116, 115, 44,
              32, 99, 104, 111, 111, 115, 101, 32, 97, 32, 100, 105, 102,
              102, 101, 114, 101, 110, 116, 32, 117, 115, 101, 114, 110, 97,
              109, 101>>
      [] s = "User with this public key already exists, choose a different public key" ->
            <<85, 115, 101, 114, 32, 119, 105, 116, 104, 32, 116, 104, 105,
              115, 32, 112, 117, 98, 108, 105, 99, 32, 107, 101, 121, 32, 97,
              108, 114, 101, 97, 100, 121, 32, 101, 120, 105, 115, 116, 115,
              44, 32, 99, 104, 111, 111, 115, 101, 32, 97, 32, 100, 105, 102,
              102, 101, 114, 101, 110, 116, 32, 112, 117, 98, 108, 105, 99,
              32, 107, 101, 121>>
      [] s = "Failed - password for source already exists" ->
            <<70, 97, 105, 108, 101, 100, 32, 45, 32, 112, 97, 115, 115, 119,
              111, 114, 100, 32, 102, 111, 114, 32, 115, 111, 117, 114, 99,
              101, 32, 97, 108, 114, 101, 97, 100, 121, 32, 101, 120, 105,
              115, 116, 115>>
      [] s = "Failed - password for source doesn't exist" ->
            <<70, 97, 105, 108, 101, 100, 32, 45, 32, 112, 97, 115, 115, 119,
              111, 114, 100, 32, 102, 111, 114, 32, 115, 111, 117, 114, 99,
              101, 32, 100, 111, 101, 115, 110, 39, 116, 32, 101, 120, 105,
              115, 116>>
      [] s = "[]" ->
            <<91, 93>>

\* the methods PasswordManagerServer registers with handle_method
vault_methods ==
    {"create_user", "login_request", "login_test", "get_sources", "get_password",
     "set_password", "delete_password", "delete_user"}

\* the session a handler is called with: None, or a Session, of which the
\* handlers read the keys of its data
NoneSession == [is_none |-> TRUE, data |-> {}]
SessionWith(data_keys) == [is_none |-> FALSE, data |-> data_keys]

\* the data a session can hold: none, the login number and user name that
\* login_request stores, and with them the user id that login_test stores
LoginPending == {"loginNumber", "loginUserName"}
LoggedIn == LoginPending \cup {"loggedInUID"}
SessionArguments ==
    {NoneSession, SessionWith({}), SessionWith(LoginPending), SessionWith(LoggedIn)}

\* what the database does with a handler's statements: the first and the
\* second raise pyodbc.Error, find no row, or find rows; and whether the
\* request's body is the login number of the session
DbOutcomes == {"error", "empty", "rows"}
Environments == [first : DbOutcomes, second : DbOutcomes, matches : BOOLEAN]

\* one header, as set_header_value is called with it
Header(name, value) == [name |-> Text(name), value |-> value]

RECURSIVE set_header_values(_, _)
\* res.set_header_value(...), call after call
set_header_values(headers, items) ==
    IF items = <<>> THEN headers
    ELSE set_header_values(
             set_header_value(headers, Head(items).name, Head(items).value),
             Tail(items))

\* what a handler left behind: the exception it raised, the res it filled in,
\* whether res.body is a str, and the keys of the session's data
Handled(exception, response, body_is_str, data_keys) ==
    [raised |-> exception, res |-> response, body_is_str |-> body_is_str,
     data |-> data_keys]

\* the end of most branches: res.body = ...; Content-Length, Method and
\* Content-Type are set.  An int header value is held as the text an f-string
\* makes of it.
answer(res_message, body, method, content_type, session_argument) ==
    Handled("none",
        [res_message EXCEPT
            !.body = body,
            !.headers = set_header_values(@,
                <<Header("Content-Length",
                         str(IF body.is_none THEN 0 ELSE Len(body.bytes))),
                  Header("Method", Text(method)),
                  Header("Content-Type", Text(content_type))>>)],
        FALSE, session_argument.data)

\* the branches that set no Content-Type: res.body = None; Content-Length
\* and Method are set; return
answer_no_body(res_message, method, session_argument) ==
    Handled("none",
        [res_message EXCEPT
            !.body = NoBody,
            !.headers = set_header_values(@,
                <<Header("Content-Length", str(0)),
                  Header("Method", Text(method))>>)],
        FALSE, session_argument.data)

\* the database-error branches whose body is an f-string that is never
\* encoded: res.body is a str
answer_str(res_message, method, session_argument) ==
    [answer(res_message, Body(Reply("Failed - server database error")), method,
            "ascii", session_argument) EXCEPT !.body_is_str = TRUE]

\* PasswordManagerServer.create_user
create_user(res_message, s, db) ==
    IF "error" \in {db.first, db.second}
    THEN answer_str(res_message, "create_user", s)
    ELSE IF db.first = "rows"
    THEN answer(res_message,
             Body(Reply("User with this username already exists, choose a different username")),
             "create_user", "ascii", s)
    ELSE IF db.second = "rows"
    THEN answer(res_message,
             Body(Reply("User with this public key already exists, choose a different public key")),
             "create_user", "ascii", s)
    ELSE answer(res_message, Body(Reply("Success")), "create_user", "ascii", s)

\* cipher.encrypt(random_number), some bytes
random_number_encrypted == <<0, 255>>

\* PasswordManagerServer.login_request
login_request(res_message, s, db) ==
    IF db.first = "error"
    THEN answer(res_message, NoBody, "login_request", "bytes", s)
    ELSE IF db.first = "empty" \/ s.is_none
    THEN answer(res_message, NoBody, "login_request", "bytes", s)
    ELSE answer(res_message, Body(random_number_encrypted), "login_request",
                "bytes", SessionWith(s.data \cup LoginPending))

\* a login_test that does not compare the request's body with the session's
\* login number: the fault C32_LoginOnlyByLoginTest tells from login_test
login_test_any_number(res_message, s, db) ==
    IF s.is_none
    THEN answer(res_message, Body(Reply("Failed - no session")), "login_test",
                "ascii", s)
    ELSE IF "loginNumber" \notin s.data
    THEN answer(res_message, Body(Reply("Failed - no login number in session")),
                "login_test", "ascii", s)
    ELSE IF "loginUserName" \notin s.data
    THEN answer(res_message, Body(Reply("Failed - no login username in session")),
                "login_test", "ascii", s)
    ELSE IF db.first = "error"
    THEN answer_str(res_message, "login_test", s)
    ELSE IF db.first = "empty"
    THEN answer(res_message, Body(Reply("Failed - user a doesn't exist")),
                "login_test", "ascii", s)
    ELSE answer(res_message, Body(Reply("Success")), "login_test", "ascii",
                SessionWith(s.data \cup {"loggedInUID"}))

\* PasswordManagerServer.login_test
login_test(res_message, s, db) ==
    IF s.is_none
    THEN answer(res_message, Body(Reply("Failed - no session")), "login_test",
                "ascii", s)
    ELSE IF "loginNumber" \notin s.data
    THEN answer(res_message, Body(Reply("Failed - no login number in session")),
                "login_test", "ascii", s)
    ELSE IF "loginUserName" \notin s.data
    THEN answer(res_message, Body(Reply("Failed - no login username in session")),
                "login_test", "ascii", s)
    ELSE IF ~db.matches
    THEN answer(res_message, Body(Reply("Failed - incorrect number")),
                "login_test", "ascii", s)
    ELSE IF db.first = "error"
    THEN answer_str(res_message, "login_test", s)
    ELSE IF db.first = "empty"
    THEN answer(res_message, Body(Reply("Failed - user a doesn't exist")),
                "login_test", "ascii", s)
    ELSE answer(res_message, Body(Reply("Success")), "login_test", "ascii",
                SessionWith(s.data \cup {"loggedInUID"}))

\* PasswordManagerServer.get_sources
get_sources(res_message, s, db) ==
    IF s.is_none
    THEN \* the branch does not return: session.data, of None, is next
         [answer_no_body(res_message, "get_sources", s) EXCEPT
             !.raised = "AttributeError"]
    ELSE IF "loggedInUID" \notin s.data
    THEN answer_no_body(res_message, "get_sources", s)
    ELSE IF db.first = "error"
    THEN answer_no_body(res_message, "get_sources", s)
    ELSE answer(res_message, Body(Reply("[]")), "get_sources", "ascii json", s)

\* password[0][0], some bytes
stored_password == <<1>>

\* PasswordManagerServer.get_password
get_password(res_message, s, db) ==
    IF s.is_none
    THEN answer_no_body(res_message, "get_password", s)
    ELSE IF "loggedInUID" \notin s.data
    THEN answer_no_body(res_message, "get_password", s)
    ELSE IF db.first = "error"
    THEN answer_no_body(res_message, "get_password", s)
    ELSE IF db.first = "empty"
    THEN answer_no_body(res_message, "get_password", s)
    ELSE answer(res_message, Body(stored_password), "get_password", "bytes", s)

\* PasswordManagerServer.set_password
set_password(res_message, s, db) ==
    IF s.is_none
    THEN answer(res_message, Body(Reply("Failed - no session")), "set_password",
                "ascii", s)
    ELSE IF "loggedInUID" \notin s.data
    THEN answer(res_message, Body(Reply("Failed - not logged in")),
                "set_password", "ascii", s)
    ELSE IF db.first = "error"
    THEN answer_str(res_message, "set_password", s)
    ELSE IF db.first = "rows"
    THEN answer(res_message,
                Body(Reply("Failed - password for source already exists")),
                "set_password", "ascii", s)
    ELSE IF db.second = "error"
    THEN answer_str(res_message, "set_password", s)
    ELSE answer(res_message, Body(Reply("Success")), "set_password", "ascii", s)

\* PasswordManagerServer.delete_password
delete_password(res_message, s, db) ==
    IF s.is_none
    THEN answer(res_message, Body(Reply("Failed - no session")),
                "delete_password", "ascii", s)
    ELSE IF "loggedInUID" \notin s.data
    THEN answer(res_message, Body(Reply("Failed - not logged in")),
                "delete_password", "ascii", s)
    ELSE IF db.first = "error"
    THEN answer_str(res_message, "delete_password", s)
    ELSE IF db.first = "empty"
    THEN answer(res_message,
                Body(Reply("Failed - password for source doesn't exist")),
                "delete_password", "ascii", s)
    ELSE IF db.second = "error"
    THEN answer_str(res_message, "delete_password", s)
    ELSE answer(res_message, Body(Reply("Success")), "delete_password", "ascii",
                s)

\* PasswordManagerServer.delete_user
delete_user(res_message, s, db) ==
    IF s.is_none
    THEN answer(res_message, Body(Reply("Failed - no session")), "delete_user",
                "ascii", s)
    ELSE IF "loggedInUID" \notin s.data
    THEN answer(res_message, Body(Reply("Failed - not logged in")), "delete_user",
                "ascii", s)
    ELSE IF db.first = "error"
    THEN answer_str(res_message, "delete_user", s)
    ELSE answer(res_message, Body(Reply("Success")), "delete_user", "ascii", s)

\* self.method_handlers[method](req, res, session), for a registered method
call_method(method, res_message, s, db) ==
    CASE method = "create_user" -> create_user(res_message, s, db)
      [] method = "login_request" -> login_request(res_message, s, db)
      [] method = "login_test" -> login_test(res_message, s, db)
      [] method = "get_sources" -> get_sources(res_message, s, db)
      [] method = "get_password" -> get_password(res_message, s, db)
      [] method = "set_password" -> set_password(res_message, s, db)
      [] method = "delete_password" -> delete_password(res_message, s, db)
      [] method = "delete_user" -> delete_user(res_message, s, db)

\* ------------------------------------------------- the handler pipeline

\* the handlers in the order the other way round for the first two: the fault
\* C21_StagesInOrder tells from handlers
handlers_session_first == <<"session_generator", "parse_message", "method_handler">>

\* self.handlers, as CommunicationProtocolServer.__init__ appends to it
handlers == <<"parse_message", "session_generator", "method_handler">>

\* headers.get(header_name): None, or the value
get_header_value(headers, header_name) ==
    IF \E i \in 1..Len(headers) : headers[i].name = header_name
    THEN [is_none |-> FALSE,
          value |-> headers[CHOOSE i \in 1..Len(headers) :
                                headers[i].name = header_name].value]
    ELSE [is_none |-> TRUE, value |-> <<>>]

\* a token as it stands in a header: the code points of its characters
TokenText(t) == [i \in 1..Len(t) |-> Text(t[i])[1]]

\* self.sessions.get(token), for a token read from a header
get_session_of(session_token) ==
    IF \E t \in DictKeys(sessions) : TokenText(t) = session_token
    THEN DictGet(sessions, CHOOSE t \in DictKeys(sessions) :
                               TokenText(t) = session_token)
    ELSE NoSession

\* what a call of a handler did: the exception it raised, the value it
\* returned, the session map it left, the bytes it wrote to the socket
Stage(exception, result, map, written) ==
    [raised |-> exception, result |-> result, sessions |-> map,
     written |-> written]

\* parse_message
parse_message(message) ==
    IF message.type # "bytes"
    THEN Stage("TypeError: byte_arr[0:3]", NoResult, sessions, <<>>)
    ELSE LET parsed == from_bytes(message.bytes) IN
         IF parsed.raised # "none"
         THEN Stage(parsed.raised, NoResult, sessions, <<>>)
         ELSE Stage("none", Result("req", <<>>, parsed.message, NoMessage),
                    sessions, <<>>)

\* session_generator, with create_session, whose generate_session_token
\* returns t
session_generator_stage(request, t) ==
    IF request.type # "req"
    THEN Stage("AttributeError: get_header_value", NoResult, sessions, <<>>)
    ELSE LET session_value == get_header_value(request.req.headers, Text("Session")) IN
         IF ~session_value.is_none /\ session_value.value = Text("*")
         THEN Stage("none",
                    [request EXCEPT !.req.headers =
                        set_header_value(@, Text("Session"), TokenText(t))],
                    DictSet(sessions, t, Session(1, now)), <<>>)
         ELSE Stage("none", request, sessions, <<>>)

\* method_handler, with the handler of the method, whose database does db
method_handler_stage(request, db) ==
    IF request.type # "req"
    THEN Stage("AttributeError: get_header_value", NoResult, sessions, <<>>)
    ELSE
    LET header == get_header_value(request.req.headers, Text("Session"))
        session_token ==
            IF Head(header.value) = Text("~")[1] THEN Tail(header.value)
            ELSE header.value
        found == IF session_token # Text("-") THEN get_session_of(session_token)
                 ELSE NoSession
        response == CommunicationProtocol(RES,
                        set_header_value(<<>>, Text("Session"), session_token),
                        NoBody)
        method == get_header_value(request.req.headers, Text("Method"))
        name == CHOOSE m \in vault_methods : Text(m) = method.value
        \* a session this connection finds is one it has just created
        handled == call_method(name, response,
                       IF found = NoSession THEN NoneSession ELSE SessionWith({}),
                       db)
    IN
    IF header.is_none
    THEN Stage("TypeError: session_token[0]", NoResult, sessions, <<>>)
    ELSE IF header.value = <<>>
    THEN Stage("IndexError: session_token[0]", NoResult, sessions, <<>>)
    ELSE IF method.is_none \/ \A m \in vault_methods : Text(m) # method.value
    THEN Stage("KeyError: method_handlers[method]", NoResult, sessions, <<>>)
    ELSE IF handled.raised # "none"
    THEN Stage(handled.raised, NoResult, sessions, <<>>)
    ELSE IF handled.body_is_str
    THEN \* res.to_bytes(): byte_arr[i:] = self.body, a str
         Stage("TypeError: to_bytes", NoResult, sessions, <<>>)
    ELSE IF Head(header.value) # Text("~")[1]
    THEN Stage("none", Result("tuple", <<>>, request.req, handled.res), sessions,
               to_bytes(handled.res))
    ELSE IF get_session_of(session_token) = NoSession
    THEN \* self.sessions.pop(token)
         Stage("KeyError: sessions.pop(token)", NoResult, sessions,
               to_bytes(handled.res))
    ELSE Stage("none", Result("tuple", <<>>, request.req, handled.res),
               DictPop(sessions, CHOOSE t \in DictKeys(sessions) :
                                     TokenText(t) = session_token),
               to_bytes(handled.res))

\* whether the call of this handler goes through create_session
creates_session(handler, request) ==
    /\ handler = "session_generator"
    /\ request.type = "req"
    /\ get_header_value(request.req.headers, Text("Session")) =
           [is_none |-> FALSE, value |-> Text("*")]

\* a call handle_client made: the handler, what it was given, what it
\* returned
Ran(handler, input, output) ==
    [handler |-> handler, input |-> input, output |-> output]

\* handle_client, line 121: the handler has been called; what it returned
\* becomes prev_result, and what it raised leaves handle_client
called(handler, stage) ==
    /\ ran' = Append(ran, Ran(handler, prev_result, stage.result))
    /\ sessions' = stage.sessions
    /\ wire' = [wire EXCEPT !.written = @ \o stage.written]
    /\ IF stage.raised # "none"
       THEN Uncaught(stage.raised) /\ UNCHANGED prev_result
       ELSE prev_result' = stage.result /\ UNCHANGED <<hpc, uncaught>>

\* handle_client, lines 120-121: the next handler is called with prev_result
call_handler ==
    /\ hpc = "handlers"
    /\ Len(ran) < Len(handlers)
    /\ LET handler == handlers[Len(ran) + 1] IN
       \/ /\ handler = "parse_message"
          /\ called(handler, parse_message(prev_result))
       \/ /\ handler = "session_generator"
          /\ \E t \in Tokens :
                /\ creates_session(handler, prev_result) =>
                       generate_session_token(t, session_token_length)
                /\ called(handler, session_generator_stage(prev_result, t))
       \/ /\ handler = "method_handler"
          /\ \E db \in Environments :
                called(handler, method_handler_stage(prev_result, db))
    /\ UNCHANGED <<now, conn_vars, evict_vars, codec, gen, vault, frame>>

\* handle_client, line 123: every handler has returned; close_client closes
\* the socket
client_socket_close ==
    /\ hpc = "handlers"
    /\ Len(ran) = Len(handlers)
    /\ hpc' = "closed"
    /\ UNCHANGED <<now, sessions, conn_vars, evict_vars, codec, gen, vault, wire, frame,
                   prev_result, ran, uncaught>>

\* ------------------------------------------------ what a peer may send

\* a request of the vault's client: Content-Length, Session and Method
\* headers, and a body
ClientRequest(session_value, method, body) ==
    CommunicationProtocol(REQ,
        <<[name |-> Text("Content-Length"), value |-> str(Len(body))],
          [name |-> Text("Session"), value |-> session_value],
          [name |-> Text("Method"), value |-> Text(method)]>>,
        Body(body))

\* the Session header values of the requests: *, -, a token, ~ and a token
SessionTexts == {Text("*"), Text("-"), Text("a"), Text("~") \o Text("a")}

\* well-formed frames
WellFormed ==
    {to_bytes(ClientRequest(v, m, <<>>)) :
        v \in SessionTexts, m \in vault_methods \cup {"does_not_exist"}}
    \cup {to_bytes(ClientRequest(Text("-"), "login_test", <<0>>))}

\* frames that lack a header: Content-Length, Session, Method
Lacking ==
    {to_bytes(CommunicationProtocol(REQ,
         <<[name |-> Text("Session"), value |-> Text("-")],
           [name |-> Text("Method"), value |-> Text("login_test")]>>, Body(<<>>))),
     to_bytes(CommunicationProtocol(REQ,
         <<[name |-> Text("Content-Length"), value |-> str(0)],
           [name |-> Text("Method"), value |-> Text("login_test")]>>, Body(<<>>))),
     to_bytes(CommunicationProtocol(REQ,
         <<[name |-> Text("Content-Length"), value |-> str(0)],
           [name |-> Text("Session"), value |-> Text("-")]>>, Body(<<>>)))}

\* the frame whose beginnings stand for the truncated ones
Whole == to_bytes(ClientRequest(Text("-"), "login_test", <<0>>))

\* a peer that closes before its frame is complete: after the tag, inside
\* the header-length field, inside the header section, before the body
Truncated == {SubSeq(Whole, 1, n) : n \in 3..(Len(Whole) - 1)}

\* a frame whose header_length field says less than 9
ShortHeaderLength ==
    {encode(REQ) \o encode(<<Colon>>) \o ToLittleEndian(8) \o encode(<<Colon>>)}

\* not a frame at all: "xyz1"
Malformed == {<<120, 121, 122, 49>>}

SentFrames ==
    WellFormed \cup Lacking \cup Truncated \cup ShortHeaderLength \cup Malformed

\* a connection has been accepted, its peer has sent what it sends, and the
\* worker's handle_client starts
InitHandle ==
    /\ ServerInit
    /\ codec = NoCall
    /\ wire \in {Wire(f) : f \in SentFrames}
    /\ hpc = "receive_message"
    /\ frame = NoFrame
    /\ prev_result = NoResult
    /\ ran = <<>>
    /\ uncaught = "none"
    /\ gen = NoGenerating
    /\ vault = NoVault

NextHandle ==
    \/ recv_req_res
    \/ recv_data
    \/ recv_header_length
    \/ recv_headers
    \/ recv_body
    \/ call_handler
    \/ client_socket_close

SpecHandle == InitHandle /\ [][NextHandle]_vars

\* ------------------------------------- generate_session_token on its own

\* session_generator, line 386: create_session is called again, for the
\* next request with Session: *
create_session_call ==
    /\ gen.at = "returned"
    /\ gen' = Generating(gen.length, <<>>, "while")
    /\ UNCHANGED <<now, sessions, conn_vars, evict_vars, codec, hc_vars, vault>>

\* generate_session_token, lines 203-204 and 208: the test of the while
\* loop; token = "" when it goes round, return token when it does not
while_token_in_sessions ==
    /\ gen.at = "while"
    /\ IF gen.token \in DictKeys(sessions) \/ gen.token = <<>>
       THEN gen' = [gen EXCEPT !.token = <<>>, !.at = "for"]
       ELSE gen' = [gen EXCEPT !.at = "return"]
    /\ UNCHANGED <<now, sessions, conn_vars, evict_vars, codec, hc_vars, vault>>

\* line 206: token += characters[randint(0, len(characters)-1)], where
\* randint gives this character
randint(ch) ==
    /\ gen.at = "for"
    /\ Len(gen.token) < gen.length
    /\ gen' = [gen EXCEPT !.token = Append(@, ch)]
    /\ UNCHANGED <<now, sessions, conn_vars, evict_vars, codec, hc_vars, vault>>

\* lines 205-206: for i in range(length), one turn or the end of it
for_i_in_range ==
    \/ \E ch \in characters : randint(ch)
    \/ /\ gen.at = "for"
       /\ Len(gen.token) >= gen.length
       /\ gen' = [gen EXCEPT !.at = "while"]
       /\ UNCHANGED <<now, sessions, conn_vars, evict_vars, codec, hc_vars, vault>>

\* create_session, lines 219-222: the token has been returned, the session
\* is stored under it
create_session_returns ==
    /\ gen.at = "return"
    /\ sessions' = DictSet(sessions, gen.token, Session(1, now))
    /\ gen' = [gen EXCEPT !.at = "returned"]
    /\ UNCHANGED <<now, conn_vars, evict_vars, codec, hc_vars, vault>>

\* the strings the for loop has built before its last draw
Prefixes == UNION {StringsOfLength(n) : n \in 0..(MaxTokenLength - 1)}

\* a server configured with some token length, at its first call of
\* create_session
InitToken ==
    /\ ServerInit
    /\ codec = NoCall
    /\ NoConnection
    /\ \E length \in 0..MaxTokenLength : gen = Generating(length, <<>>, "while")
    /\ vault = NoVault

NextToken ==
    \/ create_session_call
    \/ while_token_in_sessions
    \/ for_i_in_range
    \/ create_session_returns

\* The thread is scheduled, and randint is random: a draw that can be made
\* again and again is made at some time, whatever was drawn before it.
SpecToken ==
    /\ InitToken
    /\ [][NextToken]_vars
    /\ WF_vars(NextToken)
    /\ \A p \in Prefixes : \A ch \in characters :
          SF_vars(gen.token = p /\ randint(ch))

\* ------------------------------- the vault's handlers on one session's data

\* the user names of the requests, the random numbers login_request may
\* draw, and the sources passwords are stored for
UserNames == {"a", "b"}
Numbers == {1, 2}
Sources == {"s"}

\* Users.ID, the identity column: the id of the user with this name
ID(user_name) == IF user_name = "a" THEN 1 ELSE 2

\* what a request body says once a handler has decoded it: a user name
\* (create_user, login_request), the decrypted number (login_test), a source
BodyFields == [name : UserNames, number : Numbers, source : Sources]

\* db_cursor.execute(...): the statement, its table, the user id it is
\* executed with (0: none) and the name or source it is executed with
Statement(op, table, UserID, text) ==
    [op |-> op, table |-> table, UserID |-> UserID, text |-> text]

\* whether the handlers that ask for a login go on to the database
logged_in(s) == ~s.is_none /\ "loggedInUID" \in s.data

\* the statements the handler of this method executes, in their order: s is
\* the session it is called with, db what the database does with them,
\* body the request's body, and values the values of the session's data
executes(method, s, db, body, values) ==
    CASE method = "create_user" ->
            <<Statement("SELECT", "Users", 0, body.name)>>
            \o (IF db.first = "error" THEN <<>>
                ELSE <<Statement("SELECT", "Users", 0, "PublicKey")>>)
            \o (IF db.first = "empty" /\ db.second = "empty"
                THEN <<Statement("INSERT", "Users", 0, body.name)>> ELSE <<>>)
      [] method = "login_request" ->
            <<Statement("SELECT", "Users", 0, body.name)>>
      [] method = "login_test" ->
            IF ~s.is_none /\ LoginPending \subseteq s.data /\ db.matches
            THEN <<Statement("SELECT", "Users", 0, values.loginUserName)>>
            ELSE <<>>
      [] method = "get_sources" ->
            IF logged_in(s)
            THEN <<Statement("SELECT", "Passwords", values.loggedInUID, "")>>
            ELSE <<>>
      [] method = "get_password" ->
            IF logged_in(s)
            THEN <<Statement("SELECT", "Passwords", values.loggedInUID, body.source)>>
            ELSE <<>>
      [] method = "set_password" ->
            IF logged_in(s)
            THEN <<Statement("SELECT", "Passwords", values.loggedInUID, body.source)>>
                 \o (IF db.first = "empty"
                     THEN <<Statement("INSERT", "Passwords", values.loggedInUID,
                                      body.source)>>
                     ELSE <<>>)
            ELSE <<>>
      [] method = "delete_password" ->
            IF logged_in(s)
            THEN <<Statement("SELECT", "Passwords", values.loggedInUID, body.source)>>
                 \o (IF db.first = "rows"
                     THEN <<Statement("DELETE", "Passwords", values.loggedInUID,
                                      body.source)>>
                     ELSE <<>>)
            ELSE <<>>
      [] method = "delete_user" ->
            IF logged_in(s)
            THEN <<Statement("DELETE", "Passwords", values.loggedInUID, "")>>
                 \o (IF db.first = "error" THEN <<>>
                     ELSE <<Statement("DELETE", "Users", values.loggedInUID, "")>>)
            ELSE <<>>

\* what the first statement of the handler finds in the tables
first_finds(method, body, values) ==
    LET rows(found) == IF found THEN "rows" ELSE "empty" IN
    CASE method \in {"create_user", "login_request"} ->
            rows(body.name \in values.Users)
      [] method = "login_test" -> rows(values.loginUserName \in values.Users)
      [] method \in {"get_password", "set_password", "delete_password"} ->
            rows(<<values.loggedInUID, body.source>> \in values.Passwords)
      [] OTHER -> "rows"

\* the tables after the statements that were committed
committed(tables, statements) ==
    LET last_one == statements[Len(statements)] IN
    IF statements = <<>> THEN tables
    ELSE IF last_one.op = "INSERT" /\ last_one.table = "Users"
    THEN [tables EXCEPT !.Users = @ \cup {last_one.text}]
    ELSE IF last_one.op = "INSERT" /\ last_one.table = "Passwords"
    THEN [tables EXCEPT !.Passwords = @ \cup {<<last_one.UserID, last_one.text>>}]
    ELSE IF last_one.op = "DELETE" /\ last_one.table = "Passwords"
    THEN [tables EXCEPT !.Passwords = @ \ {<<last_one.UserID, last_one.text>>}]
    ELSE IF last_one.op = "DELETE" /\ last_one.table = "Users"
    THEN [tables EXCEPT
             !.Passwords = {row \in @ : row[1] # last_one.UserID},
             !.Users = {u \in @ : ID(u) # last_one.UserID}]
    ELSE tables

\* the smallest of the numbers and of the user names
FirstNumber == CHOOSE n \in Numbers : \A m \in Numbers : n <= m
FirstName == CHOOSE u \in UserNames : \A v \in UserNames : ID(u) <= ID(v)

\* a handler reads of the body what its method is about, login_request
\* alone draws a number, and create_user and delete_user alone have a
\* second statement that can fail: what is not read is held at one value
reads(method, body, random_number, fails) ==
    /\ method \notin {"create_user", "login_request"} => body.name = FirstName
    /\ method # "login_test" => body.number = FirstNumber
    /\ method # "login_request" => random_number = FirstNumber
    /\ method \notin {"create_user", "delete_user"} => fails # "second"

\* a request reaches the handler of its method: with the session (the
\* request names its token) or with None; the database may fail at the
\* first or the second statement; randbytes draws random_number
handler_call ==
    \E method \in vault_methods, with_session \in BOOLEAN, body \in BodyFields,
       fails \in {"none", "first", "second"}, random_number \in Numbers :
        /\ reads(method, body, random_number, fails)
        /\ LET first_fails == fails = "first"
               second_fails == fails = "second"
               s == IF with_session THEN SessionWith(vault.data) ELSE NoneSession
               db == [first |-> IF first_fails THEN "error"
                                ELSE first_finds(method, body, vault),
                      second |-> IF second_fails THEN "error"
                                 ELSE IF method = "create_user" THEN "empty"
                                 ELSE "rows",
                      matches |-> body.number = vault.loginNumber]
           IN \E handled \in {call_method(method,
                                  CommunicationProtocol(RES, <<>>, NoBody), s, db)},
                 statements \in {executes(method, s, db, body, vault)} :
                 LET succeeded == /\ handled.raised = "none"
                                  /\ ~handled.body_is_str
                                  /\ "error" \notin {db.first, db.second}
                     stores_login == /\ method = "login_request"
                                     /\ ~handled.res.body.is_none
                     stores_uid == /\ method = "login_test"
                                   /\ handled.data # s.data
                 IN \E tables \in {IF succeeded
                                    THEN committed(vault, statements)
                                    ELSE vault} :
                       vault' =
                         Vault(IF with_session THEN handled.data ELSE vault.data,
                               IF stores_login THEN random_number
                               ELSE vault.loginNumber,
                               IF stores_login THEN body.name
                               ELSE vault.loginUserName,
                               IF stores_uid THEN ID(vault.loginUserName)
                               ELSE vault.loggedInUID,
                               tables.Users, tables.Passwords,
                               HandlerCall(method, with_session, body, statements,
                                           handled.raised),
                               vault.testing, vault.requesting)
    /\ UNCHANGED <<now, sessions, conn_vars, evict_vars, codec, hc_vars, gen>>

\* login_request in a thread of its own, lines 123-156: the user is in the
\* table, random_number is drawn and stored as the session's loginNumber
login_request_stores_number ==
    /\ vault.requesting = ""
    /\ \E user_name \in vault.Users, random_number \in Numbers :
          vault' = [vault EXCEPT !.data = @ \cup {"loginNumber"},
                                 !.loginNumber = random_number,
                                 !.requesting = user_name]
    /\ UNCHANGED <<now, sessions, conn_vars, evict_vars, codec, hc_vars, gen>>

\* and line 157: session.data["loginUserName"] = user_name
login_request_stores_name ==
    /\ vault.requesting # ""
    /\ vault' =
          [vault EXCEPT
              !.data = @ \cup {"loginUserName"},
              !.loginUserName = vault.requesting,
              !.requesting = "",
              !.last = HandlerCall("login_request", TRUE,
                           [NoBodyFields EXCEPT !.name = vault.requesting],
                           <<Statement("SELECT", "Users", 0, vault.requesting)>>,
                           "none")]
    /\ UNCHANGED <<now, sessions, conn_vars, evict_vars, codec, hc_vars, gen>>

\* login_test in a thread of its own, lines 182-189: the session holds a
\* login number and a user name, and the request's body is that number
login_test_compares ==
    /\ vault.testing = 0
    /\ LoginPending \subseteq vault.data
    /\ \E decrypted_number_bytes \in Numbers :
          /\ decrypted_number_bytes = vault.loginNumber
          /\ vault' = [vault EXCEPT !.testing = decrypted_number_bytes]
    /\ UNCHANGED <<now, sessions, conn_vars, evict_vars, codec, hc_vars, gen>>

\* and lines 192-200: the user id of session.data["loginUserName"] is
\* selected and, if there is one, stored as loggedInUID
login_test_selects ==
    /\ vault.testing # 0
    /\ LET user_name == vault.loginUserName
           found == user_name \in vault.Users
       IN vault' =
             [vault EXCEPT
                 !.data = IF found THEN @ \cup {"loggedInUID"} ELSE @,
                 !.loggedInUID = IF found THEN ID(user_name) ELSE @,
                 !.testing = 0,
                 !.last = HandlerCall("login_test", TRUE,
                              [NoBodyFields EXCEPT !.number = vault.testing],
                              <<Statement("SELECT", "Users", 0, user_name)>>,
                              "none")]
    /\ UNCHANGED <<now, sessions, conn_vars, evict_vars, codec, hc_vars, gen>>

\* a session has been created and the tables are empty; requests come in
InitVault ==
    /\ ServerInit
    /\ codec = NoCall
    /\ NoConnection
    /\ gen = NoGenerating
    /\ vault = NoVault

NextVault ==
    \/ handler_call
    \/ login_request_stores_number
    \/ login_request_stores_name
    \/ login_test_compares
    \/ login_test_selects

SpecVault == InitVault /\ [][NextVault]_vars

\* ------------------------------------------------------------------ claims

\* the workers about to touch the session map
AtMap(c) ==
    \/ pc[c] \in {"create_session", "close_session"}
    \/ pc[c] = "method_handler" /\ req[c].Session \notin {None, <<"-">>}

\* the cleanup thread is inside a pass: between the start of its iteration
\* and its last removal
InPass == epc \in {"scan", "remove"}

\* C1: under concurrent create_session calls no two live sessions share a
\* token: no step puts another Session in the place of one that is stored
\* (an entry keeps its Session until it is popped).
C1_NoSharedToken ==
    [][\A i \in LiveIndexes(sessions) : sessions'[i] \in {sessions[i], Dummy}]_vars

\* C2: a session created at T is absent at every get_session lookup after
\* T + ttl + sweep interval: the session a worker is about to look up, if it
\* is stored, is no older than ttl + sweep interval.
C2_ExpiredAbsentAtLookup ==
    \A c \in Clients :
        (pc[c] = "method_handler" /\ req[c].Session # None) =>
            LET s == get_session(StripTilde(req[c].Session)) IN
            s # NoSession => seconds_alive(s) <= SessionTTL + SweepInterval

\* C3: the sweep never removes a session whose age does not exceed ttl:
\* whenever the cleanup thread pops a collected token, the session stored
\* under it is older than ttl.
C3_SweepRemovesOnlyExpired ==
    [][(epc = "remove" /\ remove_tokens' = Tail(remove_tokens)) =>
          seconds_alive(get_session(Head(remove_tokens))) > SessionTTL]_vars

\* C4: all accesses to the session map are mutually exclusive: no worker
\* touches the map while the cleanup thread is inside a pass, and no two
\* workers are between the check and the insert of create_session at once.
C4_MutualExclusion ==
    [][/\ InPass => \A c \in Clients : AtMap(c) => pc'[c] = pc[c]
       /\ \A c, d \in Clients :
             (pc'[c] = "create_session" /\ pc'[d] = "create_session") => c = d]_vars

\* C5: the cleanup thread never terminates: it has neither returned nor
\* died of an exception.
C5_WorkerNeverTerminates == epc \notin {"returned", "died"}

\* the step in which worker c calls the method handler
Dispatches(c) == pc[c] = "dispatch" /\ pc'[c] # "dispatch"

\* C6: for a request with Session: *, the token of the response is fresh: it
\* is no key of the map when create_session stores the new session under it,
\* it is a key of the map when the method handler is called, and by then it
\* has replaced the request's own Session header and is the response's.
C6_StarTokenFresh ==
    [][\A c \in Clients :
          /\ (pc[c] = "create_session" /\ pc'[c] # "create_session") =>
                 token[c] \notin DictKeys(sessions)
          /\ (Dispatches(c) /\ token[c] # <<>>) =>
                 /\ token[c] \in DictKeys(sessions)
                 /\ req[c].Session = token[c]
                 /\ res[c] = token[c]]_vars

\* C7: for a request with Session: ~<token>, once the response is sent and
\* close_session has run, whether it popped the entry or raised, <token> is
\* no key of the map: a lookup returns None.
C7_ClosedTokenAbsent ==
    [][\A c \in Clients :
          (pc[c] = "close_session" /\ pc'[c] # "close_session") =>
              /\ req[c].Session = <<"~">> \o res[c]
              /\ DictGet(sessions', res[c]) = NoSession]_vars

\* C7's case: at time 0, when nothing is old enough for the sweep, an entry
\* has been popped, every worker that ran has closed its connection and the
\* map holds no key: a ~<token> request for a live session has completed.
C7_Witness ==
    /\ now = 0
    /\ \E i \in 1..Len(sessions) : sessions[i] = Dummy
    /\ DictKeys(sessions) = {}
    /\ \E c \in Clients : pc[c] = "closed"
    /\ \A c \in Clients : pc[c] \in {"unborn", "closed"}

\* C8: a request with Session: - creates no session, changes the map in none
\* of its steps, and has its method handler called with no session.
C8_DashNoSession ==
    [][\A c \in Clients :
          (pc'[c] # pc[c] /\ <<"-">> \in {req[c].Session, req'[c].Session}) =>
              /\ sessions' = sessions
              /\ pc'[c] # "create_session"
              /\ token'[c] = <<>>
              /\ pc[c] = "dispatch" => session[c] = NoSession]_vars

\* C8's case: the handler of a Session: - request is about to be called with
\* no session while the map holds a session of another request.
C8_Witness ==
    \E c \in Clients :
        /\ pc[c] = "dispatch"
        /\ req[c].Session = <<"-">>
        /\ session[c] = NoSession
        /\ DictKeys(sessions) # {}

\* C9: a follow-up request carrying the token a Session: * response gave,
\* sent before the session expired and with no ~<token> request since, gets
\* the very Session the first request's handler was called with.
C9_FollowUpSameSession ==
    [][\A c \in Clients :
          (/\ pc[c] = "method_handler" /\ pc'[c] = "dispatch"
           /\ follows[c] # NoSession
           /\ FollowedUp(req[c].Session) = follows[c]) =>
              session'[c] = follows[c]]_vars

\* C10: a request naming an unregistered method gets an error response and a
\* normally closed connection: its worker is never ended by the failed
\* lookup of the method handler.
C10_UnknownMethodAnswered ==
    \A c \in Clients : raised[c] # "KeyError: method_handlers[method]"

\* C11: after a malformed preamble the drain loop ends once the peer has
\* closed: when recv(1) has returned b"", the test of the loop fails, so that
\* the worker goes on to its FramingError and the close of the socket.
C11_DrainEndsAtPeerClose ==
    \A c \in Clients :
        (pc[c] = "drain" /\ data[c] = Bytes(<<>>)) => ~drain_continues(data[c])

\* C12: close_client is called on every exit path of handle_client: no
\* worker ends by an exception, with close_client not reached.
C12_AlwaysReleased == \A c \in Clients : pc[c] # "crashed"

\* the texts of a message's headers, names and values
HeaderTexts(m) ==
    {m.headers[i].name : i \in 1..Len(m.headers)}
        \cup {m.headers[i].value : i \in 1..Len(m.headers)}

\* no header name or value holds ":" or "=", and there is a body
NoDelimiters(m) ==
    /\ \A t \in HeaderTexts(m) : \A i \in 1..Len(t) : t[i] \notin {Colon, Equals}
    /\ ~m.body.is_none

\* every header name and value is ASCII text
Ascii(m) == \A t \in HeaderTexts(m) : \A i \in 1..Len(t) : t[i] < 128

\* a dict's items
Items(headers) == {headers[i] : i \in 1..Len(headers)}

\* from_bytes returned a message with the direction, headers and body of m
Reproduces(result, m) ==
    /\ result.raised = "none"
    /\ result.message.req_res = m.req_res
    /\ Items(result.message.headers) = Items(m.headers)
    /\ Len(result.message.headers) = Len(m.headers)
    /\ result.message.body = m.body

\* to_bytes has been called on a message and from_bytes on its result
RoundTripDone == codec.at = "done" /\ codec.self # NoMessage

\* C13: from_bytes(to_bytes(m)) reproduces the direction, the headers and
\* the body of every message m whose header names and values hold no ":"
\* and no "=" (the claim as it stands).
C13_RoundTrip ==
    (RoundTripDone /\ NoDelimiters(codec.self)) =>
        Reproduces(codec.result, codec.self)

\* C13, amended: from_bytes(to_bytes(m)) reproduces the direction, the
\* headers and the body of every message m whose header names and values are
\* ASCII text that holds no ":" and no "=".
C13_RoundTripAscii ==
    (RoundTripDone /\ NoDelimiters(codec.self) /\ Ascii(codec.self)) =>
        Reproduces(codec.result, codec.self)

\* C13's case: a message of two headers, one with the value "ab", and a body
\* that holds a ":" has gone through to_bytes and from_bytes and come back.
C13_Witness ==
    /\ RoundTripDone
    /\ NoDelimiters(codec.self) /\ Ascii(codec.self)
    /\ Len(codec.self.headers) = 2
    /\ <<97, 98>> \in HeaderTexts(codec.self)
    /\ \E i \in 1..Len(codec.self.body.bytes) : codec.self.body.bytes[i] = Colon
    /\ Reproduces(codec.result, codec.self)

RECURSIVE HeaderLengths(_)
\* the sum over the headers of len(name) + len(value) + 2
HeaderLengths(headers) ==
    IF headers = <<>> THEN 0
    ELSE Len(Head(headers).name) + Len(Head(headers).value) + 2
         + HeaderLengths(Tail(headers))

\* the number the bytes at offsets 4..7 spell, low byte first
HeaderLengthField(b) == b[5] + 256 * b[6] + 65536 * b[7] + 16777216 * b[8]

\* C14: in every encoded message the header_length field at offsets 4..7 is
\* 9 + the sum over the headers of (len(name) + len(value) + 2), and the
\* body starts at offset header_length: the bytes from there on are the body.
C14_HeaderLength ==
    (codec.at \in {"from_bytes", "done"} /\ codec.self # NoMessage) =>
        LET header_length == HeaderLengthField(codec.byte_arr) IN
        /\ header_length = 9 + HeaderLengths(codec.self.headers)
        /\ header_length <= Len(codec.byte_arr)
        /\ ~codec.self.body.is_none =>
               SubSeq(codec.byte_arr, header_length + 1, Len(codec.byte_arr))
                   = codec.self.body.bytes

\* C14's case: a message of two headers and a body of one byte is encoded.
C14_Witness ==
    /\ codec.at = "from_bytes"
    /\ Len(codec.self.headers) = 2
    /\ ~codec.self.body.is_none /\ Len(codec.self.body.bytes) = 1
    /\ HeaderLengthField(codec.byte_arr) = Len(codec.byte_arr) - 1

\* C15: decoding bytes whose first three are not req or res fails with
\* CommunicationProtocolException and with no other error.
C15_FramingErrorOnly ==
    (codec.at = "done" /\ Slice(codec.byte_arr, 0, 3) \notin {encode(REQ), encode(RES)}) =>
        codec.result.raised = "CommunicationProtocolException"

\* C16: close_session is idempotent: for a token that is absent it completes
\* without error, so no ~<token> request ends by the KeyError of the pop.
C16_CloseIdempotent ==
    \A c \in Clients : raised[c] # "KeyError: sessions.pop(token)"

\* the session stored under token t, looked for entry by entry
Stored(t) ==
    IF \E i \in 1..Len(sessions) : sessions[i] # Dummy /\ sessions[i].key = t
    THEN sessions[CHOOSE i \in 1..Len(sessions) :
                      sessions[i] # Dummy /\ sessions[i].key = t].value
    ELSE NoSession

C18_AbsentTokenCompletes ==
    [][\A c \in Clients :
          (pc[c] = "close_session" /\ session[c] = NoSession) =>
              pc'[c] # "crashed"]_vars

\* C19: once method_handler is reached a response is always written: no
\* worker ends by an exception raised in method_handler before the send.
C19_ResponseAlwaysSent ==
    \A c \in Clients :
        raised[c] \notin {"TypeError: session_token[0]",
                          "KeyError: method_handlers[method]"}

\* C20: a transport error ends only the worker it happens to: the accept
\* loop of serve_forever is running in every state.
C20_AcceptLoopSurvives == listening

\* the handlers of the protocol server in the order of their registration
RegistrationOrder == <<"parse_message", "session_generator", "method_handler">>

\* C21: within one connection the stages run strictly in registration order,
\* none twice: after the framed receive has returned, parse_message,
\* session_generator and method_handler are called one after the other, the
\* first with what receive_message returned and each of the others with what
\* the one before it returned.
C21_StagesInOrder ==
    /\ [](/\ Len(ran) <= Len(RegistrationOrder)
          /\ \A i \in 1..Len(ran) : ran[i].handler = RegistrationOrder[i]
          /\ \A i \in 2..Len(ran) : ran[i].input = ran[i - 1].output
          /\ ran # <<>> => hpc \in {"handlers", "closed", "crashed"})
    /\ [][/\ ran' # ran =>
                /\ hpc = "handlers"
                /\ ran' = Append(ran, ran'[Len(ran')])
                /\ ran'[Len(ran')].input = prev_result
                /\ uncaught' = "none" => prev_result' = ran'[Len(ran')].output
          /\ (prev_result' # prev_result /\ ran' = ran) =>
                /\ hpc = "body" /\ ran = <<>>
                /\ prev_result' =
                      Result("bytes",
                          reassembled(SubSeq(wire.unread, 1,
                              Len(wire.unread) - Len(wire'.unread))),
                          NoMessage, NoMessage)]_vars

\* C21's case: the three handlers have run on a Session: * request and the
\* socket is closed; session_generator returned the request with the new
\* token in its Session header, and method_handler was given that request
\* and returned it with the response.
C21_Witness ==
    /\ hpc = "closed"
    /\ Len(ran) = 3
    /\ ran[1].input.type = "bytes" /\ ran[1].input.bytes = wire.sent
    /\ get_header_value(ran[2].input.req.headers, Text("Session")).value = Text("*")
    /\ ran[2].output # ran[2].input
    /\ ran[3].input = ran[2].output
    /\ ran[3].output.type = "tuple"
    /\ ran[3].output.req = ran[2].output.req
    /\ prev_result = ran[3].output

\* C22: every key of the session map is a non-empty string of exactly the
\* configured token length whose characters all come from the token alphabet.
C22_KeysAreTokens ==
    \A k \in DictKeys(sessions) :
        /\ k # <<>>
        /\ Len(k) = session_token_length
        /\ \A i \in 1..Len(k) : k[i] \in characters

\* C22's case: two requests with Session: * have been handled to the end
\* with different tokens, and the map holds an entry under each.
C22_Witness ==
    /\ Cardinality(DictKeys(sessions)) = 2
    /\ \A k \in DictKeys(sessions) : k \in Tokens
    /\ \E c, d \in Clients :
          /\ c # d
          /\ pc[c] = "closed" /\ pc[d] = "closed"

\* C23: every response a registered method handler of the vault produced
\* carries a Content-Length header, a Method header that names the method the
\* request invoked, and a Content-Type header.
C23_ResponseHeaders ==
    \A i \in 1..Len(ran) :
        (ran[i].handler = "method_handler" /\ ran[i].output.type = "tuple") =>
            LET headers == ran[i].output.res.headers
                invoked == get_header_value(ran[i].input.req.headers, Text("Method"))
            IN /\ ~get_header_value(headers, Text("Content-Length")).is_none
               /\ get_header_value(headers, Text("Method")) = invoked
               /\ ~get_header_value(headers, Text("Content-Type")).is_none

\* what receive_message returned to handle_client, once it has returned
returned_message == IF ran = <<>> THEN prev_result ELSE ran[1].input

\* C24: the framed read of a well-formed frame raises nothing, reads exactly
\* header_length - 9 header bytes and Content-Length body bytes, and returns
\* a byte run identical to the frame the peer sent, however the socket
\* splits its deliveries.
C24_FramedReadWhole ==
    wire.sent \in WellFormed =>
        /\ ~(hpc = "crashed" /\ ran = <<>>)
        /\ hpc = "body" =>
              Len(frame.headers) = FromLittleEndian(frame.header_length_bytes) - 9
        /\ returned_message # NoResult =>
              /\ returned_message.bytes = wire.sent
              /\ wire.unread = <<>>

\* a whole frame with a direction tag and a header section in which no
\* parameter is Content-Length=<digits>
lacks_content_length(message) ==
    /\ Len(message) >= 9
    /\ SubSeq(message, 1, 3) \in {encode(REQ), encode(RES)}
    /\ FromLittleEndian(SubSeq(message, 5, 8)) = Len(message)
    /\ LET decoded == decode(SubSeq(message, 10, Len(message)))
           split_list == split(decoded.text, Colon)
       IN /\ decoded.ok
          /\ filter_content_length(SubSeq(split_list, 1, Len(split_list) - 1)) = <<>>

\* C25: the framed read of a frame that has a valid direction tag and no
\* Content-Length=<digits> parameter returns no message, and the only
\* exception that leaves it is a FramingError.
C25_NoContentLengthFramingError ==
    lacks_content_length(wire.sent) =>
        /\ returned_message = NoResult
        /\ (hpc = "crashed" /\ ran = <<>>) => uncaught = "FramingError"

\* C26: a frame cut short after its direction tag, or one whose header_length
\* is less than 9, is fatal to its connection only: the framed read returns
\* no message, what leaves it is a FramingError, the socket is closed when it
\* does, and the accept loop keeps running.
C26_TruncatedFrameFramingError ==
    wire.sent \in Truncated \cup ShortHeaderLength =>
        /\ returned_message = NoResult
        /\ uncaught # "none" => (uncaught = "FramingError" /\ hpc = "closed")
        /\ listening

\* C27: a request whose Session header is a plain <token> (one the client
\* sent, not one session_generator wrote) leaves the session open.  No step of its worker changes the session map; and in no step taken
\* while the request is being handled, other than a pop of the cleanup thread
\* or the close_session of a ~<token> request, does a live session stored
\* under <token> stop being the one stored there.
C27_PlainTokenKeepsSession ==
    [][\A c \in Clients : \A t \in Tokens :
          (req[c].Session = t /\ token[c] = <<>>) =>
              /\ pc'[c] # pc[c] => sessions' = sessions
              /\ (/\ get_session(t) # NoSession
                  /\ UNCHANGED evict_vars
                  /\ \A d \in Clients :
                        ~(pc[d] = "close_session" /\ res[d] = t /\ pc'[d] # pc[d]))
                  => DictGet(sessions', t) = get_session(t)]_vars

\* C28: for a request whose Session header is ~<token> and whose token names
\* a live session, method_handler resolves that stored Session and the
\* handler is called with it; close_session is entered only from the step
\* that called the handler and wrote the response, only by a worker whose
\* directive begins with ~, and it pops only then.
C28_CloseAfterResponse ==
    [][\A c \in Clients :
          /\ (/\ pc[c] = "method_handler" /\ pc'[c] # pc[c]
              /\ req[c].Session # None /\ Head(req[c].Session) = "~"
              /\ get_session(Tail(req[c].Session)) # NoSession) =>
                 /\ pc'[c] = "dispatch"
                 /\ session'[c] = get_session(Tail(req[c].Session))
          /\ (pc[c] = "dispatch" /\ pc'[c] = "close_session") =>
                 /\ session'[c] = session[c]
                 /\ sessions' = sessions
          /\ (pc'[c] = "close_session" /\ pc[c] # "close_session") =>
                 /\ pc[c] = "dispatch"
                 /\ Head(req[c].Session) = "~"
                 /\ sent(c)'
          /\ (pc[c] = "close_session" /\ pc'[c] # pc[c]) =>
                 /\ sent(c)
                 /\ Head(req[c].Session) = "~"
                 /\ res[c] = Tail(req[c].Session)
                 /\ \A t \in DictKeys(sessions) \ DictKeys(sessions') : t = res[c]]_vars

\* C28's case: the worker of a ~<token> request has called the handler with
\* the Session stored under the token and has written the response; it is
\* about to call close_session and the Session is still stored.
C28_Witness ==
    \E c \in Clients :
        /\ pc[c] = "close_session"
        /\ Head(req[c].Session) = "~"
        /\ session[c] # NoSession
        /\ session[c] = get_session(Tail(req[c].Session))
        /\ sent(c)

\* the exceptions that end a worker for what its own request is (no Session
\* header, a method that is not registered), or after the response was sent
own_exceptions ==
    {"TypeError: session_token[0]", "KeyError: method_handlers[method]",
     "KeyError: sessions.pop(token)"}

\* C29: a worker blocked for good in the socket read of receive_message holds
\* no one: the accept loop accepts the other connections, and each of their
\* requests is received, dispatched and answered (or ends by an exception of
\* its own) while the first worker is still blocked.
C29_StalledWorkerHoldsNoOne ==
    <>[](pc[Stalled] = "receive_message") =>
        <>(/\ pc[Stalled] = "receive_message"
           /\ accepted = NumClients
           /\ \A d \in 1..NumClients :
                 d # Stalled =>
                    \/ pc[d] = "closed"
                    \/ pc[d] = "crashed" /\ raised[d] \in own_exceptions)

\* C29's case: the first worker is blocked in its read, and the second
\* connection was accepted after it and answered.
C29_Witness ==
    /\ pc[Stalled] = "receive_message"
    /\ accepted = NumClients
    /\ \E d \in Clients \ {Stalled} : pc[d] = "closed"

\* C30: create_session always terminates: for every token length and every
\* content of the map, a call that has started leaves the loop of
\* generate_session_token and stores the session.
C30_CreateSessionTerminates == [](gen.at = "while" => <>(gen.at = "returned"))

\* C31: for a request with Session: *, the method's handler is called with a
\* Session that is not None and is the very one create_session constructed
\* for this request, and that one is stored under the token the response
\* carries when the handler is called.
C31_StarGetsOwnSession ==
    [][\A c \in Clients :
          (pc[c] = "dispatch" /\ pc'[c] # pc[c] /\ token[c] # <<>>
             /\ raised'[c] # "KeyError: method_handlers[method]") =>
              /\ session[c] # NoSession
              /\ session[c].id = c
              /\ res[c] = token[c]
              /\ get_session(token[c]) = session[c]]_vars

\* C32: a session's data gains loggedInUID, or has it changed, only in a
\* login_test call that was given the session, whose body equalled the
\* loginNumber the data held when it was compared, and whose loginUserName
\* names a user of the Users table; and loginNumber and loginUserName are
\* stored by login_request alone.
C32_LoginOnlyByLoginTest ==
    [][/\ (\/ "loggedInUID" \in vault'.data \ vault.data
           \/ vault'.loggedInUID # vault.loggedInUID) =>
              /\ vault'.last.method = "login_test"
              /\ vault'.last.with_session
              /\ vault.loginUserName \in vault.Users
              /\ \/ vault.testing # 0 /\ vault'.testing = 0
                 \/ /\ LoginPending \subseteq vault.data
                    /\ vault'.last.body.number = vault.loginNumber
       /\ (vault'.testing # 0 /\ vault'.testing # vault.testing) =>
              /\ LoginPending \subseteq vault.data
              /\ vault'.testing = vault.loginNumber
       /\ (\/ "loginNumber" \in vault'.data \ vault.data
           \/ vault'.loginNumber # vault.loginNumber) =>
              \/ vault'.last.method = "login_request" /\ vault'.last.with_session
              \/ vault.requesting = "" /\ vault'.requesting # ""
       /\ (\/ "loginUserName" \in vault'.data \ vault.data
           \/ vault'.loginUserName # vault.loginUserName) =>
              /\ vault'.last.method = "login_request"
              /\ vault'.last.with_session]_vars

\* C32's case: login_request stored a number for a user of the table and a
\* login_test with that number went through: the session's data holds
\* loggedInUID, the id of that user.
C32_Witness ==
    /\ vault.data = LoggedIn
    /\ vault.last.method = "login_test"
    /\ vault.last.with_session
    /\ vault.last.body.number = vault.loginNumber
    /\ vault.loggedInUID = ID(vault.loginUserName)
    /\ vault.loginUserName \in vault.Users

\* C33: get_sources, get_password, set_password, delete_password and
\* delete_user execute statements on the tables only when they are called
\* with a session whose data holds loggedInUID, every statement is about that
\* user id and the tables change in that user's rows alone; called with None
\* or with a session without loggedInUID they return, no statement executed
\* and the tables as they were.
C33_AuthorisedAccessOnly ==
    [][(/\ vault'.last.method \in
              {"get_sources", "get_password", "set_password",
               "delete_password", "delete_user"}
        /\ vault'.testing = vault.testing
        /\ vault'.requesting = vault.requesting) =>
          IF vault'.last.with_session /\ "loggedInUID" \in vault.data
          THEN /\ \A i \in 1..Len(vault'.last.statements) :
                     vault'.last.statements[i].UserID = vault.loggedInUID
               /\ \A row \in (vault.Passwords \ vault'.Passwords)
                                \cup (vault'.Passwords \ vault.Passwords) :
                     row[1] = vault.loggedInUID
               /\ \A u \in (vault.Users \ vault'.Users)
                              \cup (vault'.Users \ vault.Users) :
                     ID(u) = vault.loggedInUID
          ELSE /\ vault'.last.statements = <<>>
               /\ vault'.Passwords = vault.Passwords
               /\ vault'.Users = vault.Users
               /\ vault'.last.raised = "none"]_vars

====
